---- MODULE Spec2Model ----
(***************************************************************************)
(* GymTrackerStreamlit: the workout-data normalisation pipeline            *)
(* (utils/data_processing.py), the recovery-status assessment of the       *)
(* recommenders (utils/ml_features.py, complete_workout_recommender.py),   *)
(* the recommendation models (utils/ml_models.py), the recommender built   *)
(* on them (utils/ml_recommender.py) and the complete-workout planner      *)
(* (utils/complete_workout_recommender.py).                                *)
(*                                                                         *)
(* Strings are sequences of one-character strings, so that split, strip,   *)
(* int(), lower() and the regular expressions act on characters as the     *)
(* Python code does.  Weights are Python floats; they are held as          *)
(* fixed-point integers in units of 1/WScale.  RPE values are held in      *)
(* half points (RPE 8.5 is 17).                                            *)
(***************************************************************************)
EXTENDS Integers, Sequences, FiniteSets, TLC

VARIABLES
    pc,                 \* position in the pipeline being run
    sets_string,        \* the 'Sets x Reps x Weight' cell being parsed
    sets_data,          \* Parsed_Sets
    total_volume,       \* Total_Volume   (units of 1/WScale)
    avg_weight,         \* Avg_Weight     (a fraction num/den, units of 1/WScale)
    total_reps,         \* Total_Reps
    estimated_1rm,      \* Estimated_1RM  (units of 1/(30*WScale))
    max_weight,         \* Max_Weight     (units of 1/WScale)
    max_reps,           \* Max_Reps
    csv_rows,           \* the rows read from workouts.csv
    df,                 \* the DataFrame being built by load_workout_data
    now,                \* datetime.now()
    recent_context,     \* CompleteWorkoutRecommender._get_recent_context(df)
    context_features,   \* WorkoutFeatureEngineer.create_context_features()
    csv_file,           \* workouts.csv as load_workout_data finds it
    st_error,           \* the message load_workout_data passed to st.error
    recommendation_history, \* st.session_state.recommendation_history
    collaborative_model,\* a CollaborativeFilteringModel
    recommender,        \* the MLWorkoutRecommender kept in the session
    request,            \* the arguments of the last call of a service
    result              \* what the last call returned, or the exception

vars == <<pc, sets_string, sets_data, total_volume, avg_weight, total_reps,
          estimated_1rm, max_weight, max_reps, csv_rows, df, now,
          recent_context, context_features, csv_file,
          st_error, recommendation_history, collaborative_model, recommender, request, result>>

parseVars == <<sets_string, sets_data, total_volume, avg_weight, total_reps,
               estimated_1rm, max_weight, max_reps>>
frameVars == <<csv_rows, df>>
contextVars == <<now, recent_context, context_features>>
loadVars == <<csv_file, st_error, recommendation_history>>
serviceVars == <<loadVars, collaborative_model, recommender, request, result>>

(***************************************************************************)
(* Python string primitives                                                *)
(***************************************************************************)
Whitespace == {" ", "\t", "\n", "\r"}

Digits == <<"0", "1", "2", "3", "4", "5", "6", "7", "8", "9">>

IsDigit(c) == \E i \in 1..10 : Digits[i] = c

DigitVal(c) == (CHOOSE i \in 1..10 : Digits[i] = c) - 1

UpperCase == <<"A", "B", "C", "D", "E", "F", "G", "H", "I", "J", "K", "L", "M",
               "N", "O", "P", "Q", "R", "S", "T", "U", "V", "W", "X", "Y", "Z">>

LowerCase == <<"a", "b", "c", "d", "e", "f", "g", "h", "i", "j", "k", "l", "m",
               "n", "o", "p", "q", "r", "s", "t", "u", "v", "w", "x", "y", "z">>

LowerChar(c) ==
    IF \E i \in 1..26 : UpperCase[i] = c
    THEN LowerCase[CHOOSE i \in 1..26 : UpperCase[i] = c]
    ELSE c

\* str.lower()
Lower(s) == [i \in 1..Len(s) |-> LowerChar(s[i])]

\* sub in s
Contains(s, sub) ==
    \E i \in 1..(Len(s) - Len(sub) + 1) : SubSeq(s, i, i + Len(sub) - 1) = sub

\* str.find(c) + 1 for a single character: 0 when absent
Find(s, c) ==
    IF \E i \in 1..Len(s) : s[i] = c
    THEN CHOOSE i \in 1..Len(s) : s[i] = c /\ \A j \in 1..(i - 1) : s[j] # c
    ELSE 0

\* str.strip()
RECURSIVE LStrip(_)
LStrip(s) ==
    IF s # <<>> /\ Head(s) \in Whitespace THEN LStrip(Tail(s)) ELSE s

RECURSIVE RStrip(_)
RStrip(s) ==
    IF s # <<>> /\ s[Len(s)] \in Whitespace
    THEN RStrip(SubSeq(s, 1, Len(s) - 1))
    ELSE s

Strip(s) == RStrip(LStrip(s))

\* str.split(sep) for a one-character separator
RECURSIVE Split(_, _)
Split(s, sep) ==
    LET i == Find(s, sep)
    IN  IF i = 0 THEN <<s>>
        ELSE <<SubSeq(s, 1, i - 1)>> \o Split(SubSeq(s, i + 1, Len(s)), sep)

\* the value of a run of decimal digits
RECURSIVE DigitsValue(_)
DigitsValue(ds) ==
    IF ds = <<>> THEN 0
    ELSE 10 * DigitsValue(SubSeq(ds, 1, Len(ds) - 1)) + DigitVal(ds[Len(ds)])

\* int(s): surrounding whitespace, an optional sign, digits with single
\* underscores between them; anything else raises ValueError (ok = FALSE)
PyInt(s) ==
    LET t    == Strip(s)
        neg  == t # <<>> /\ Head(t) = "-"
        body == IF t # <<>> /\ Head(t) \in {"-", "+"} THEN Tail(t) ELSE t
        ok   == /\ body # <<>>
                /\ \A i \in 1..Len(body) : IsDigit(body[i]) \/ body[i] = "_"
                /\ IsDigit(body[1]) /\ IsDigit(body[Len(body)])
                /\ \A i \in 1..(Len(body) - 1) : ~(body[i] = "_" /\ body[i + 1] = "_")
        mag  == DigitsValue(SelectSeq(body, IsDigit))
    IN  [ok |-> ok, val |-> IF ~ok THEN 0 ELSE IF neg THEN 0 - mag ELSE mag]

\* the end of the maximal run of digits that starts at position i
RECURSIVE RunEnd(_, _)
RunEnd(s, i) ==
    IF i < Len(s) /\ IsDigit(s[i + 1]) THEN RunEnd(s, i + 1) ELSE i

\* the first position holding a digit, 0 when there is none
FirstDigit(s) ==
    IF \E i \in 1..Len(s) : IsDigit(s[i])
    THEN CHOOSE i \in 1..Len(s) :
            IsDigit(s[i]) /\ \A j \in 1..(i - 1) : ~IsDigit(s[j])
    ELSE 0

\* fixed-point unit of a float weight: hundredths
WScale == 100

\* float() of integer digits and fraction digits, in units of 1/WScale
\* (fraction digits beyond the second are dropped)
PyFloat(intDigits, fracDigits) ==
    LET f1 == IF Len(fracDigits) >= 1 THEN DigitVal(fracDigits[1]) ELSE 0
        f2 == IF Len(fracDigits) >= 2 THEN DigitVal(fracDigits[2]) ELSE 0
    IN  DigitsValue(intDigits) * WScale + 10 * f1 + f2

\* re.search(r'(\d+(?:\.\d+)?)', weight_str): whether it matches, and
\* float() of the match
RegexWeight(weight_str) ==
    LET i == FirstDigit(weight_str)
    IN  IF i = 0 THEN [found |-> FALSE, val |-> 0]
        ELSE LET j == RunEnd(weight_str, i)
                 hasFrac == /\ j + 2 <= Len(weight_str)
                            /\ weight_str[j + 1] = "."
                            /\ IsDigit(weight_str[j + 2])
                 k == IF hasFrac THEN RunEnd(weight_str, j + 2) ELSE j
             IN  [found |-> TRUE,
                  val |-> PyFloat(SubSeq(weight_str, i, j),
                                  IF hasFrac THEN SubSeq(weight_str, j + 2, k)
                                  ELSE <<>>)]

\* re.search(r'(\d+)x', set_group): whether it matches, and int() of the
\* first run of digits that is followed by an 'x'
RegexSetsX(set_group) ==
    LET starts == {i \in 1..Len(set_group) :
                      /\ IsDigit(set_group[i])
                      /\ RunEnd(set_group, i) < Len(set_group)
                      /\ set_group[RunEnd(set_group, i) + 1] = "x"}
    IN  IF starts = {} THEN [found |-> FALSE, val |-> 0]
        ELSE LET i == CHOOSE m \in starts : \A n \in starts : m <= n
             IN  [found |-> TRUE,
                  val |-> DigitsValue(SubSeq(set_group, i, RunEnd(set_group, i)))]

(***************************************************************************)
(* parse_sets_reps_weight                                                  *)
(***************************************************************************)
\* pd.isna(sets_string): the absent cell
NaN == <<"NaN">>

FailureWord == <<"f", "a", "i", "l", "u", "r", "e">>

\* except (ValueError, IndexError): continue
HandledExceptionsNoValueError == {"IndexError"}

HandledExceptions == {"ValueError", "IndexError"}

\* the branch taken for a segment that holds an 'x': int(parts[0]),
\* int(parts[1]), the weight of parts[2]
ParseXSegment(set_group) ==
    LET parts == Split(set_group, "x")
    IN  IF Len(parts) >= 2
        THEN LET sets == PyInt(parts[1])
                 reps == PyInt(parts[2])
                 weight_str == IF Len(parts) > 2 THEN parts[3] ELSE <<"0">>
                 weight_match == RegexWeight(weight_str)
                 weight == IF weight_match.found THEN weight_match.val ELSE 0
             IN  IF ~sets.ok \/ ~reps.ok
                 THEN [exc |-> "ValueError", recs |-> <<>>]
                 ELSE [exc |-> "none",
                       recs |-> <<[sets |-> sets.val, reps |-> reps.val,
                                   weight |-> weight]>>]
        ELSE [exc |-> "none", recs |-> <<>>]

\* the branch taken for a segment without 'x' that holds "failure"
ParseFailureSegment(set_group) ==
    LET sets_match == RegexSetsX(set_group)
        sets == IF sets_match.found THEN sets_match.val ELSE 1
    IN  [exc |-> "none", recs |-> <<[sets |-> sets, reps |-> 0, weight |-> 0]>>]

\* one iteration of the loop over set_groups
ParseSetGroup(raw_group) ==
    LET set_group == Strip(raw_group)
    IN  IF Contains(set_group, <<"x">>) THEN ParseXSegment(set_group)
        ELSE IF Contains(Lower(set_group), FailureWord)
             THEN ParseFailureSegment(set_group)
             ELSE [exc |-> "none", recs |-> <<>>]

RECURSIVE ParseLoopBreak(_, _)
ParseLoopBreak(set_groups, acc) ==
    IF set_groups = <<>> THEN [exc |-> "none", data |-> acc]
    ELSE LET r == ParseSetGroup(Head(set_groups))
         IN  IF r.exc = "none" THEN ParseLoopBreak(Tail(set_groups), acc \o r.recs)
             ELSE IF r.exc \in HandledExceptions
                  THEN [exc |-> "none", data |-> acc]
                  ELSE [exc |-> r.exc, data |-> acc]

\* the loop over set_groups
RECURSIVE ParseLoop(_, _)
ParseLoop(set_groups, acc) ==
    IF set_groups = <<>> THEN [exc |-> "none", data |-> acc]
    ELSE LET r == ParseSetGroup(Head(set_groups))
         IN  IF r.exc = "none" THEN ParseLoop(Tail(set_groups), acc \o r.recs)
             ELSE IF r.exc \in HandledExceptions
                  THEN ParseLoop(Tail(set_groups), acc)
                  ELSE [exc |-> r.exc, data |-> acc]

parse_sets_reps_weight(s) ==
    IF s = NaN THEN [exc |-> "none", data |-> <<>>]
    ELSE ParseLoop(Split(s, ";"), <<>>)

(***************************************************************************)
(* The metric functions                                                    *)
(***************************************************************************)
RECURSIVE VolumeLoopNoGuard(_, _)
VolumeLoopNoGuard(sd, acc) ==
    IF sd = <<>> THEN acc
    ELSE VolumeLoopNoGuard(Tail(sd),
            acc + Head(sd).sets * Head(sd).reps * Head(sd).weight)

RECURSIVE VolumeLoop(_, _)
VolumeLoop(sd, acc) ==
    IF sd = <<>> THEN acc
    ELSE VolumeLoop(Tail(sd),
            IF Head(sd).reps > 0
            THEN acc + Head(sd).sets * Head(sd).reps * Head(sd).weight
            ELSE acc)

calculate_total_volume(sd) == IF sd = <<>> THEN 0 ELSE VolumeLoop(sd, 0)

RECURSIVE AvgWeightLoop(_, _, _)
AvgWeightLoop(sd, total_weight, total_sets) ==
    IF sd = <<>> THEN <<total_weight, total_sets>>
    ELSE IF Head(sd).weight > 0
         THEN AvgWeightLoop(Tail(sd),
                            total_weight + Head(sd).sets * Head(sd).weight,
                            total_sets + Head(sd).sets)
         ELSE AvgWeightLoop(Tail(sd), total_weight, total_sets)

\* the quotient total_weight / total_sets is kept as the fraction num/den
calculate_avg_weight(sd) ==
    IF sd = <<>> THEN [num |-> 0, den |-> 1]
    ELSE LET t == AvgWeightLoop(sd, 0, 0)
         IN  IF t[2] > 0 THEN [num |-> t[1], den |-> t[2]]
             ELSE [num |-> 0, den |-> 1]

RECURSIVE RepsLoop(_, _)
RepsLoop(sd, acc) ==
    IF sd = <<>> THEN acc
    ELSE RepsLoop(Tail(sd),
            IF Head(sd).reps > 0 THEN acc + Head(sd).sets * Head(sd).reps
            ELSE acc)

calculate_total_reps(sd) == IF sd = <<>> THEN 0 ELSE RepsLoop(sd, 0)

PyMax(a, b) == IF b > a THEN b ELSE a

\* weight * (1 + reps / 30), in units of 1/(30*WScale)
EpleyTimesSets(set_data) == set_data.sets * set_data.weight * (30 + set_data.reps)

Epley(set_data) == set_data.weight * (30 + set_data.reps)

RECURSIVE OneRmLoop(_, _)
OneRmLoop(sd, max_1rm) ==
    IF sd = <<>> THEN max_1rm
    ELSE OneRmLoop(Tail(sd),
            IF Head(sd).reps > 0 /\ Head(sd).weight > 0
            THEN PyMax(max_1rm, Epley(Head(sd)))
            ELSE max_1rm)

calculate_1rm(sd) == IF sd = <<>> THEN 0 ELSE OneRmLoop(sd, 0)

RECURSIVE MaxWeightLoop(_, _, _)
MaxWeightLoop(sd, mw, mr) ==
    IF sd = <<>> THEN <<mw, mr>>
    ELSE IF Head(sd).weight > mw
         THEN MaxWeightLoop(Tail(sd), Head(sd).weight, Head(sd).reps)
         ELSE IF Head(sd).weight = mw
              THEN MaxWeightLoop(Tail(sd), mw, PyMax(mr, Head(sd).reps))
              ELSE MaxWeightLoop(Tail(sd), mw, mr)

get_max_weight_and_reps(sd) ==
    IF sd = <<>> THEN <<0, 0>> ELSE MaxWeightLoop(sd, 0, 0)

(***************************************************************************)
(* The cells the pipeline is run on                                        *)
(***************************************************************************)
\* the largest number of ';'-separated segments in a cell
MaxSegments == 2

Segments ==
    { <<"3", "x", "1", "0", "x", "1", "3", "5">>,                \* 3x10x135
      <<"2", "x", "8", "x", "1", "5", "5">>,                     \* 2x8x155
      <<" ", "f", "a", "i", "l", "u", "r", "e">>,                \* _failure
      <<"3", "x", "f", "a", "i", "l", "u", "r", "e">>,           \* 3xfailure
      <<"1", "x", "5", "x", "2", "0", "0">>,                     \* 1x5x200
      <<"1", "x", "8", "x", "2", "0", "0">>,                     \* 1x8x200
      <<>>,                                                      \* empty
      <<"0", "x", "5", "x", "1", "0", "0">>,                     \* 0x5x100
      <<"-", "2", "x", "5", "x", "1", "0", "0">>,                \* -2x5x100
      <<"3", "x", "-", "5">>,                                    \* 3x-5
      <<"3", "x", "0", "x", "5", "0">>,                          \* 3x0x50
      <<"2", "x", "8">>,                                         \* 2x8
      <<"a", "b", "c">>,                                         \* abc
      <<"a", "x", "5", "x", "1", "0", "0">>,                     \* ax5x100
      <<"3", "x">>,                                              \* 3x
      <<"x">>,                                                   \* x
      <<"2", " ", "F", "A", "I", "L", "U", "R", "E">>,           \* 2 FAILURE
      <<"3", "X", "f", "a", "i", "l", "u", "r", "e">>,           \* 3Xfailure
      <<"3", "x", "1", "0", "x", "2", ".", "5", "l", "b", "s">>, \* 3x10x2.5lbs
      <<" ", "3", " ", "x", " ", "1", "0", " ", "x", " ", "1", "3", "5", " ">>,
      <<"3", "x", "1", "0", "x", "a", "b", "c">>,                \* 3x10xabc
      <<"4", "x", "6", "x", "-", "5", "0">>,                     \* 4x6x-50
      <<"2", "x", "-", "4", "x", "6", "0">> }                    \* 2x-4x60

RECURSIVE Join(_)
Join(segs) ==
    IF Len(segs) = 1 THEN segs[1]
    ELSE segs[1] \o <<";">> \o Join(Tail(segs))

InputStrings ==
    {NaN} \cup
    {Join(segs) : segs \in UNION {[1..n -> Segments] : n \in 1..MaxSegments}}

(***************************************************************************)
(* load_workout_data, lines 44-59: one cell through the parser and the     *)
(* metric functions                                                        *)
(***************************************************************************)
NoFrame ==
    /\ csv_rows = <<>>
    /\ df = <<>>

NoService ==
    /\ csv_file = <<>>
    /\ st_error = <<>>
    /\ recommendation_history = <<>>
    /\ collaborative_model = <<>>
    /\ recommender = <<>>
    /\ request = <<>>
    /\ result = <<>>

NoContext ==
    /\ now = 0
    /\ recent_context = <<>>
    /\ context_features = <<>>

Init ==
    /\ pc = "input"
    /\ sets_string \in InputStrings
    /\ sets_data = <<>>
    /\ total_volume = 0
    /\ avg_weight = [num |-> 0, den |-> 1]
    /\ total_reps = 0
    /\ estimated_1rm = 0
    /\ max_weight = 0
    /\ max_reps = 0
    /\ NoFrame
    /\ NoContext
    /\ NoService

\* df['Parsed_Sets'] = ...apply(parse_sets_reps_weight); an exception that
\* leaves the function ends the run in "raised"
ParseSetsRepsWeight ==
    /\ pc = "input"
    /\ LET r == parse_sets_reps_weight(sets_string)
       IN  /\ sets_data' = r.data
           /\ pc' = IF r.exc = "none" THEN "parsed" ELSE "raised"
    /\ UNCHANGED <<sets_string, total_volume, avg_weight, total_reps,
                   estimated_1rm, max_weight, max_reps>>
    /\ UNCHANGED <<frameVars, contextVars, serviceVars>>

CalculateTotalVolume ==
    /\ pc = "parsed"
    /\ total_volume' = calculate_total_volume(sets_data)
    /\ pc' = "volume"
    /\ UNCHANGED <<sets_string, sets_data, avg_weight, total_reps,
                   estimated_1rm, max_weight, max_reps>>
    /\ UNCHANGED <<frameVars, contextVars, serviceVars>>

CalculateAvgWeight ==
    /\ pc = "volume"
    /\ avg_weight' = calculate_avg_weight(sets_data)
    /\ pc' = "avg"
    /\ UNCHANGED <<sets_string, sets_data, total_volume, total_reps,
                   estimated_1rm, max_weight, max_reps>>
    /\ UNCHANGED <<frameVars, contextVars, serviceVars>>

CalculateTotalReps ==
    /\ pc = "avg"
    /\ total_reps' = calculate_total_reps(sets_data)
    /\ pc' = "reps"
    /\ UNCHANGED <<sets_string, sets_data, total_volume, avg_weight,
                   estimated_1rm, max_weight, max_reps>>
    /\ UNCHANGED <<frameVars, contextVars, serviceVars>>

Calculate1RM ==
    /\ pc = "reps"
    /\ estimated_1rm' = calculate_1rm(sets_data)
    /\ pc' = "1rm"
    /\ UNCHANGED <<sets_string, sets_data, total_volume, avg_weight,
                   total_reps, max_weight, max_reps>>
    /\ UNCHANGED <<frameVars, contextVars, serviceVars>>

GetMaxWeightAndReps ==
    /\ pc = "1rm"
    /\ max_weight' = get_max_weight_and_reps(sets_data)[1]
    /\ max_reps' = get_max_weight_and_reps(sets_data)[2]
    /\ pc' = "done"
    /\ UNCHANGED <<sets_string, sets_data, total_volume, avg_weight,
                   total_reps, estimated_1rm>>
    /\ UNCHANGED <<frameVars, contextVars, serviceVars>>

Next ==
    \/ ParseSetsRepsWeight
    \/ CalculateTotalVolume
    \/ CalculateAvgWeight
    \/ CalculateTotalReps
    \/ Calculate1RM
    \/ GetMaxWeightAndReps

Spec == Init /\ [][Next]_vars

(***************************************************************************)
(* Properties of the parser and the metric functions                       *)
(***************************************************************************)
\* the sum of f[i] over the indices i in S
RECURSIVE SumSet(_, _)
SumSet(f, S) ==
    IF S = {} THEN 0
    ELSE LET i == CHOOSE j \in S : TRUE
         IN  f[i] + SumSet(f, S \ {i})

\* the largest element of a non-empty set of integers
MaxOf(S) == CHOOSE m \in S : \A n \in S : n <= m

Str3x10x135 == <<"3", "x", "1", "0", "x", "1", "3", "5">>

Str1x5x200 == <<"1", "x", "5", "x", "2", "0", "0">>

Str3xfailure == <<"3", "x", "f", "a", "i", "l", "u", "r", "e">>

Str2x8x155_failure ==
    <<"2", "x", "8", "x", "1", "5", "5", ";", " ", "f", "a", "i", "l", "u", "r", "e">>

\* C1: once a cell has been through the pipeline, Total_Volume is the sum of
\* sets*reps*weight over exactly the parsed records with reps > 0 (0 for the
\* empty sequence), and "3x10x135" has volume 4050 and total reps 30.
C1_VolumeSumsPositiveReps ==
    pc = "done" =>
        /\ total_volume =
              SumSet([i \in DOMAIN sets_data |->
                        sets_data[i].sets * sets_data[i].reps * sets_data[i].weight],
                     {i \in DOMAIN sets_data : sets_data[i].reps > 0})
        /\ (sets_data = <<>> => total_volume = 0)
        /\ (sets_string = Str3x10x135 =>
                total_volume = 4050 * WScale /\ total_reps = 30)

\* C1 witness: a processed cell holding a weighted record with reps > 0 and
\* records with reps <= 0, one of them with reps < 0 and a weight
C1_Witness ==
    /\ pc = "done"
    /\ total_volume > 0
    /\ \E i \in DOMAIN sets_data : sets_data[i].reps > 0 /\ sets_data[i].weight > 0
    /\ \E i \in DOMAIN sets_data : sets_data[i].reps < 0 /\ sets_data[i].weight > 0

\* C2: Avg_Weight is (sum of sets*weight over the records with weight > 0)
\* divided by (sum of sets over those records), and 0 when that
\* denominator is 0.
C2_AvgWeightIsQuotient ==
    pc = "done" =>
        LET W   == {i \in DOMAIN sets_data : sets_data[i].weight > 0}
            num == SumSet([i \in DOMAIN sets_data |->
                             sets_data[i].sets * sets_data[i].weight], W)
            den == SumSet([i \in DOMAIN sets_data |-> sets_data[i].sets], W)
        IN  IF den = 0 THEN avg_weight.num = 0
            ELSE avg_weight.num * den = num * avg_weight.den

\* the set count the failure rule reads: the integer before an 'x', else 1
FailureSets(seg) ==
    IF RegexSetsX(Strip(seg)).found THEN RegexSetsX(Strip(seg)).val ELSE 1

HasFailure(seg) == Contains(Lower(seg), FailureWord)

\* C3: every segment holding "failure" (in any case) yields exactly one
\* record with reps = 0, weight = 0 and the set count written before an 'x'
\* (1 without one): a cell made of such segments only parses to exactly
\* those records, any cell keeps at least one zero record per such segment,
\* "2x8x155; failure" gives 2 records and "3xfailure" a record with sets = 3.
C3_FailureSegmentsYieldRecords ==
    (pc = "done" /\ sets_string # NaN) =>
        LET segs == Split(sets_string, ";")
            F    == {i \in DOMAIN segs : HasFailure(segs[i])}
            Z    == {i \in DOMAIN sets_data :
                        sets_data[i].reps = 0 /\ sets_data[i].weight = 0}
        IN  /\ Cardinality(Z) >= Cardinality(F)
            /\ (F = DOMAIN segs =>
                  sets_data = [i \in DOMAIN segs |->
                                 [sets |-> FailureSets(segs[i]), reps |-> 0,
                                  weight |-> 0]])
            /\ (sets_string = Str2x8x155_failure => Len(sets_data) = 2)
            /\ (sets_string = Str3xfailure =>
                  /\ Len(sets_data) = 1
                  /\ sets_data[1].sets = 3)

\* a segment the parser turns into a record
WellFormed(seg) ==
    LET g == Strip(seg)
    IN  IF Contains(g, <<"x">>)
        THEN /\ PyInt(Split(g, "x")[1]).ok
             /\ PyInt(Split(g, "x")[2]).ok
        ELSE HasFailure(g)

Unparseable(s) ==
    \/ s = NaN
    \/ \A i \in DOMAIN Split(s, ";") : ~WellFormed(Split(s, ";")[i])

\* C4: for the absent cell, the empty string and every string without a
\* well-formed segment the parser returns the empty sequence without
\* raising, and all six metrics of it are 0.
C4_UnparseableGivesEmptyAndZeros ==
    Unparseable(sets_string) =>
        /\ pc # "raised"
        /\ sets_data = <<>>
        /\ (pc = "done" =>
              /\ total_volume = 0
              /\ avg_weight.num = 0
              /\ total_reps = 0
              /\ estimated_1rm = 0
              /\ max_weight = 0
              /\ max_reps = 0)

\* C4 witness: a processed cell with a segment on which int() raised
C4_Witness ==
    /\ pc = "done"
    /\ sets_string # NaN
    /\ Unparseable(sets_string)
    /\ \E i \in DOMAIN Split(sets_string, ";") :
          Contains(Split(sets_string, ";")[i], <<"x">>)

\* C5: every record the parser emits has sets >= 1, reps >= 0, weight >= 0.
C5_RecordsInRange ==
    pc # "input" =>
        \A i \in DOMAIN sets_data :
            /\ sets_data[i].sets >= 1
            /\ sets_data[i].reps >= 0
            /\ sets_data[i].weight >= 0

\* C6: Estimated_1RM is the largest weight*(1 + reps/30) over the records
\* with reps > 0 and weight > 0 (whatever their set counts), 0 when no
\* record qualifies; "1x5x200" gives 200*35/30.
C6_OneRmIsMaxEpley ==
    pc = "done" =>
        LET Q == {i \in DOMAIN sets_data :
                     sets_data[i].reps > 0 /\ sets_data[i].weight > 0}
            E == {sets_data[i].weight * (30 + sets_data[i].reps) : i \in Q}
        IN  /\ (Q = {} => estimated_1rm = 0)
            /\ (Q # {} => estimated_1rm = MaxOf(E))
            /\ (sets_string = Str1x5x200 => estimated_1rm = 200 * 35 * WScale)

\* C6 witness: two qualifying records with different estimates, the larger
\* estimate on a record with fewer sets
C6_Witness ==
    /\ pc = "done"
    /\ \E i, j \in DOMAIN sets_data :
          /\ sets_data[i].reps > 0 /\ sets_data[i].weight > 0
          /\ sets_data[j].reps > 0 /\ sets_data[j].weight > 0
          /\ sets_data[i].sets < sets_data[j].sets
          /\ Epley(sets_data[i]) > Epley(sets_data[j])
          /\ estimated_1rm = sets_data[i].weight * (30 + sets_data[i].reps)

\* C7: Max_Weight is the largest weight over all records and Max_Reps the
\* largest reps among the records with that weight, in any record order;
\* (0, 0) for the empty sequence.
C7_MaxWeightAndItsReps ==
    pc = "done" =>
        IF sets_data = <<>> THEN max_weight = 0 /\ max_reps = 0
        ELSE LET W == MaxOf({sets_data[i].weight : i \in DOMAIN sets_data})
             IN  /\ max_weight = W
                 /\ max_reps = MaxOf({sets_data[i].reps :
                                        i \in {j \in DOMAIN sets_data :
                                                 sets_data[j].weight = W}})

(***************************************************************************)
(* Muscle-group labels (config.py) as character sequences                  *)
(***************************************************************************)
S_Quads == <<"Q", "u", "a", "d", "s">>

S_Glutes == <<"G", "l", "u", "t", "e", "s">>

S_Hamstrings == <<"H", "a", "m", "s", "t", "r", "i", "n", "g", "s">>

S_Calves == <<"C", "a", "l", "v", "e", "s">>

S_Biceps == <<"B", "i", "c", "e", "p", "s">>

S_Triceps == <<"T", "r", "i", "c", "e", "p", "s">>

S_Forearms == <<"F", "o", "r", "e", "a", "r", "m", "s">>

S_Shoulders == <<"S", "h", "o", "u", "l", "d", "e", "r", "s">>

S_RearDelts == <<"R", "e", "a", "r", " ", "D", "e", "l", "t", "s">>

S_Traps == <<"T", "r", "a", "p", "s">>

S_Back == <<"B", "a", "c", "k">>

S_Chest == <<"C", "h", "e", "s", "t">>

S_Legs == <<"L", "e", "g", "s">>

S_Recovery == <<"R", "e", "c", "o", "v", "e", "r", "y">>

S_Arms == <<"A", "r", "m", "s">>

S_Foo == <<"F", "o", "o">>

\* MUSCLE_GROUP_MAPPING: detailed label -> grouped label
MUSCLE_GROUP_MAPPING ==
    (S_Quads :> S_Legs) @@
    (S_Glutes :> S_Legs) @@
    (S_Hamstrings :> S_Legs) @@
    (S_Calves :> S_Legs) @@
    (S_Biceps :> S_Arms) @@
    (S_Triceps :> S_Arms) @@
    (S_Forearms :> S_Arms) @@
    (S_Shoulders :> S_Shoulders) @@
    (S_RearDelts :> S_Shoulders) @@
    (S_Traps :> S_Shoulders) @@
    (S_Back :> S_Back) @@
    (S_Chest :> S_Chest) @@
    (S_Legs :> S_Legs) @@
    (S_Recovery :> S_Recovery)

\* the 'Muscle Group' cells of the log
MuscleGroupLabels ==
    { S_Back, S_Quads, S_Biceps, S_RearDelts, S_Foo,
      <<"B", "a", "c", "k", "/", "B", "i", "c", "e", "p", "s">>,
      <<"B", "a", "c", "k", " ", "/", " ", "B", "i", "c", "e", "p", "s">>,
      <<"B", "a", "c", "k", "/", "B", "a", "c", "k">>,
      <<"P", "o", "s", "t", "e", "r", "i", "o", "r", " ", "C", "h", "a", "i", "n", " ", "(", "G", "l", "u", "t", "e", "s", "/", "H", "a", "m", "s", "t", "r", "i", "n", "g", "s", "/", "B", "a", "c", "k", ")">>,
      <<"L", "e", "g", "s", " ", "(", "Q", "u", "a", "d", "s", ")">>,
      <<"C", "h", "e", "s", "t", "/", "T", "r", "i", "c", "e", "p", "s", " ", "(", "h", "e", "a", "v", "y", ")">> }

(***************************************************************************)
(* load_workout_data, lines 34-59: the frame read from workouts.csv        *)
(* through expansion, grouping, parsing and the metric columns             *)
(***************************************************************************)
\* the largest number of rows in workouts.csv
MaxRows == 2

\* the cells of a row other than 'Muscle Group' (RPE in half points)
OtherCells ==
    { [Date |-> 1, Exercise |-> "Barbell Row",
       SetsRepsWeight |-> <<"3", "x", "1", "0", "x", "1", "3", "5">>, RPE |-> 16],
      [Date |-> 2, Exercise |-> "Deadlift",
       SetsRepsWeight |-> <<"1", "x", "5", "x", "2", "0", "0">>, RPE |-> 18] }

CsvRow(c, mg) ==
    [Date |-> c.Date, Exercise |-> c.Exercise,
     SetsRepsWeight |-> c.SetsRepsWeight, RPE |-> c.RPE, MuscleGroup |-> mg]

CsvRows == {CsvRow(c, mg) : c \in OtherCells, mg \in MuscleGroupLabels}

\* [group.strip() for group in s.split('/')]
StrippedGroups(s) ==
    [i \in DOMAIN Split(s, "/") |-> Strip(Split(s, "/")[i])]

\* the rows that one row of the frame expands into
ExpandRow(row) ==
    LET muscle_group == row.MuscleGroup
    IN  IF Contains(muscle_group, <<"/">>)
        THEN LET individual_groups ==
                    IF /\ Contains(muscle_group, <<"(">>)
                       /\ Contains(muscle_group, <<")">>)
                    THEN LET start == Find(muscle_group, "(") + 1
                             end   == Find(muscle_group, ")") - 1
                         IN  StrippedGroups(SubSeq(muscle_group, start, end))
                    ELSE StrippedGroups(muscle_group)
             IN  [k \in DOMAIN individual_groups |->
                    [row EXCEPT !.MuscleGroup = individual_groups[k]]]
        ELSE <<row>>

RECURSIVE expand_compound_muscle_groups(_)
expand_compound_muscle_groups(frame) ==
    IF frame = <<>> THEN <<>>
    ELSE ExpandRow(Head(frame)) \o expand_compound_muscle_groups(Tail(frame))

\* Series.map(MUSCLE_GROUP_MAPPING): NaN for a label that is not a key
MapMuscleGroup(label) ==
    IF label \in DOMAIN MUSCLE_GROUP_MAPPING THEN MUSCLE_GROUP_MAPPING[label]
    ELSE NaN

FillNaDropped(value, other) == value

\* Series.fillna(other), per cell
FillNa(value, other) == IF value = NaN THEN other ELSE value

add_grouped_muscle_groups(frame) ==
    [i \in DOMAIN frame |->
        [Date |-> frame[i].Date, Exercise |-> frame[i].Exercise,
         SetsRepsWeight |-> frame[i].SetsRepsWeight, RPE |-> frame[i].RPE,
         MuscleGroup |-> frame[i].MuscleGroup,
         Grouped_Muscle_Group |->
            FillNa(MapMuscleGroup(frame[i].MuscleGroup), frame[i].MuscleGroup)]]

\* the columns Parsed_Sets ... Max_Reps of one row
MetricColumns(row) ==
    LET parsed == parse_sets_reps_weight(row.SetsRepsWeight).data
    IN  [Date |-> row.Date, Exercise |-> row.Exercise,
         SetsRepsWeight |-> row.SetsRepsWeight, RPE |-> row.RPE,
         MuscleGroup |-> row.MuscleGroup,
         Grouped_Muscle_Group |-> row.Grouped_Muscle_Group,
         Parsed_Sets |-> parsed,
         Total_Volume |-> calculate_total_volume(parsed),
         Avg_Weight |-> calculate_avg_weight(parsed),
         Total_Reps |-> calculate_total_reps(parsed),
         Estimated_1RM |-> calculate_1rm(parsed),
         Max_Weight |-> get_max_weight_and_reps(parsed)[1],
         Max_Reps |-> get_max_weight_and_reps(parsed)[2]]

NoCell ==
    /\ sets_string = NaN
    /\ sets_data = <<>>
    /\ total_volume = 0
    /\ avg_weight = [num |-> 0, den |-> 1]
    /\ total_reps = 0
    /\ estimated_1rm = 0
    /\ max_weight = 0
    /\ max_reps = 0

InitLoad ==
    /\ pc = "read"
    /\ csv_rows \in UNION {[1..n -> CsvRows] : n \in 0..MaxRows}
    /\ df = csv_rows
    /\ NoCell
    /\ NoContext
    /\ NoService

\* df = expand_compound_muscle_groups(df)
ExpandCompoundMuscleGroups ==
    /\ pc = "read"
    /\ df' = expand_compound_muscle_groups(df)
    /\ pc' = "expanded"
    /\ UNCHANGED <<csv_rows, parseVars, contextVars, serviceVars>>

\* df = add_grouped_muscle_groups(df); pd.DataFrame([]) has no columns, so
\* df['Muscle Group'] raises KeyError when no row was read
AddGroupedMuscleGroups ==
    /\ pc = "expanded"
    /\ IF df = <<>>
       THEN pc' = "raised" /\ df' = df
       ELSE pc' = "grouped" /\ df' = add_grouped_muscle_groups(df)
    /\ UNCHANGED <<csv_rows, parseVars, contextVars, serviceVars>>

\* the columns Parsed_Sets, Total_Volume, Avg_Weight, Total_Reps,
\* Estimated_1RM, Max_Weight and Max_Reps
CalculateMetricColumns ==
    /\ pc = "grouped"
    /\ df' = [i \in DOMAIN df |-> MetricColumns(df[i])]
    /\ pc' = "loaded"
    /\ UNCHANGED <<csv_rows, parseVars, contextVars, serviceVars>>

NextLoad ==
    \/ ExpandCompoundMuscleGroups
    \/ AddGroupedMuscleGroups
    \/ CalculateMetricColumns

SpecLoad == InitLoad /\ [][NextLoad]_vars

(***************************************************************************)
(* Properties of the muscle-group normalisation                            *)
(***************************************************************************)
StrBackSlashBiceps == <<"B", "a", "c", "k", "/", "B", "i", "c", "e", "p", "s">>

\* the slash-separated trimmed tokens of a label: of the text inside the
\* parentheses when the label has a parenthesized segment, else of the label
LabelTokens(label) ==
    IF Contains(label, <<"(">>) /\ Contains(label, <<")">>)
    THEN StrippedGroups(SubSeq(label, Find(label, "(") + 1, Find(label, ")") - 1))
    ELSE StrippedGroups(label)

\* the number of rows an entry is to expand into
RowCount(label) ==
    IF Contains(label, <<"/">>) THEN Len(LabelTokens(label)) ELSE 1

\* C8: after expansion an entry whose label holds '/' has become exactly one
\* row per token, the rows having pairwise distinct muscle groups and the
\* entry's other cells (hence its volume); an entry without '/' has become
\* exactly one unchanged row; "Back/Biceps" gives the 2 rows Back, Biceps.
C8_ExpansionGivesDistinctRows ==
    pc \in {"expanded", "grouped", "loaded"} =>
        LET cnt == [i \in DOMAIN csv_rows |-> RowCount(csv_rows[i].MuscleGroup)]
            off == [i \in DOMAIN csv_rows |-> SumSet(cnt, 1..(i - 1))]
        IN  /\ Len(df) = SumSet(cnt, DOMAIN csv_rows)
            /\ \A i \in DOMAIN csv_rows :
                  LET e == csv_rows[i]
                  IN  /\ \A k \in 1..cnt[i] :
                            LET r == df[off[i] + k]
                            IN  /\ r.Date = e.Date
                                /\ r.Exercise = e.Exercise
                                /\ r.SetsRepsWeight = e.SetsRepsWeight
                                /\ r.RPE = e.RPE
                                /\ r.MuscleGroup =
                                      IF Contains(e.MuscleGroup, <<"/">>)
                                      THEN LabelTokens(e.MuscleGroup)[k]
                                      ELSE e.MuscleGroup
                                /\ (pc = "loaded" =>
                                      r.Total_Volume =
                                        df[off[i] + 1].Total_Volume)
                      /\ \A k, l \in 1..cnt[i] :
                            k # l => df[off[i] + k].MuscleGroup #
                                     df[off[i] + l].MuscleGroup
                      /\ (e.MuscleGroup = StrBackSlashBiceps =>
                            /\ cnt[i] = 2
                            /\ df[off[i] + 1].MuscleGroup = S_Back
                            /\ df[off[i] + 2].MuscleGroup = S_Biceps)

\* C9: add_grouped_muscle_groups gives every row the group the table has
\* for its label (Quads -> Legs, Biceps -> Arms, Rear Delts -> Shoulders)
\* and the label itself when the table has no such key (Foo -> Foo), and
\* leaves the 'Muscle Group' column as it was.
C9_GroupedColumnFollowsTable ==
    [][(pc = "expanded" /\ pc' = "grouped") =>
          /\ Len(df') = Len(df)
          /\ \A i \in DOMAIN df :
                LET label == df[i].MuscleGroup
                    g     == df'[i].Grouped_Muscle_Group
                IN  /\ df'[i].MuscleGroup = label
                    /\ (label \in DOMAIN MUSCLE_GROUP_MAPPING =>
                            g = MUSCLE_GROUP_MAPPING[label])
                    /\ (label \notin DOMAIN MUSCLE_GROUP_MAPPING => g = label)
                    /\ (label = S_Quads => g = S_Legs)
                    /\ (label = S_Biceps => g = S_Arms)
                    /\ (label = S_RearDelts => g = S_Shoulders)
                    /\ (label = S_Foo => g = S_Foo)]_vars

\* C9 witness: a grouped frame with a row whose label is a key mapped to
\* another name and a row whose label is not a key
C9_Witness ==
    /\ pc = "grouped"
    /\ \E i \in DOMAIN df :
          /\ df[i].MuscleGroup = S_Quads
          /\ df[i].Grouped_Muscle_Group = S_Legs
    /\ \E i \in DOMAIN df :
          /\ df[i].MuscleGroup \notin DOMAIN MUSCLE_GROUP_MAPPING
          /\ df[i].Grouped_Muscle_Group = df[i].MuscleGroup

(***************************************************************************)
(* The recent-workout context of the two recommenders                      *)
(***************************************************************************)
\* the largest number of rows in the log handed to the recommenders
MaxLogRows == 6

\* the log rows: a day number and an RPE in half points (17 is RPE 8.5)
LogRows ==
    {[Date |-> d, RPE |-> r, MuscleGroup |-> "Back"] : d \in {1, 2}, r \in {17, 18}}

\* DataFrame.tail(n)
DfTail(frame, n) ==
    IF Len(frame) <= n THEN frame
    ELSE SubSeq(frame, Len(frame) - n + 1, Len(frame))

\* (recent_workouts['RPE'] > 8.5).sum()
HighRpeCount(recent_workouts) ==
    Cardinality({i \in DOMAIN recent_workouts : recent_workouts[i].RPE > 17})

Engineer_assess_recovery_status_late(recent_workouts) ==
    IF Len(recent_workouts) = 0 THEN "ready"
    ELSE LET high_rpe_count == HighRpeCount(recent_workouts)
         IN  IF high_rpe_count > 3 THEN "needs_rest"
             ELSE IF high_rpe_count >= 2 THEN "light_workout"
             ELSE "ready"

\* WorkoutFeatureEngineer._assess_recovery_status
Engineer_assess_recovery_status(recent_workouts) ==
    IF Len(recent_workouts) = 0 THEN "ready"
    ELSE LET high_rpe_count == HighRpeCount(recent_workouts)
         IN  IF high_rpe_count >= 3 THEN "needs_rest"
             ELSE IF high_rpe_count >= 2 THEN "light_workout"
             ELSE "ready"

\* CompleteWorkoutRecommender._assess_recovery_status
Planner_assess_recovery_status(recent_workouts) ==
    IF Len(recent_workouts) = 0 THEN "ready"
    ELSE LET high_rpe_count == HighRpeCount(recent_workouts)
         IN  IF high_rpe_count >= 3 THEN "needs_rest"
             ELSE IF high_rpe_count >= 2 THEN "light_workout"
             ELSE "ready"

\* CompleteWorkoutRecommender._get_recent_context(df) at time t
\* (recent_workouts is the local the status is computed from)
get_recent_context(frame, t) ==
    LET recent_workouts == DfTail(frame, 5)
        n == Len(recent_workouts)
    IN  [recent_workouts   |-> recent_workouts,
         last_workout_date |-> IF n > 0 THEN <<recent_workouts[n].Date>> ELSE <<>>,
         days_since_last   |-> IF n > 0 THEN t - recent_workouts[n].Date ELSE 7,
         recovery_status   |-> Planner_assess_recovery_status(recent_workouts)]

\* the arrangements of the rows of one date: sort_values('Date') uses a
\* sort that is not stable, so rows of equal date come out in any order
Arrangements(group) ==
    LET vals == {group[i] : i \in DOMAIN group}
        occ(s, v) == Cardinality({i \in DOMAIN s : s[i] = v})
    IN  {s \in [1..Len(group) -> vals] : \A v \in vals : occ(s, v) = occ(group, v)}

RowsOn(frame, d) == SelectSeq(frame, LAMBDA r : r.Date = d)

RECURSIVE SortedFrames(_, _)
SortedFrames(frame, dates) ==
    IF dates = {} THEN {<<>>}
    ELSE LET d == CHOOSE m \in dates : \A n \in dates : m <= n
         IN  {a \o rest : a \in Arrangements(RowsOn(frame, d)),
                          rest \in SortedFrames(frame, dates \ {d})}

\* WorkoutFeatureEngineer.__init__: self.df = df.sort_values('Date'),
\* the set of frames it may produce
sort_values_Date(frame) ==
    SortedFrames(frame, {frame[i].Date : i \in DOMAIN frame})

\* WorkoutFeatureEngineer.create_context_features(target_date) on self.df
\* (the keys a recommender reads, and the rows they are computed from;
\* "None" stands for None)
create_context_features(self_df, target_date) ==
    LET recent_workouts ==
            DfTail(SelectSeq(self_df, LAMBDA r : r.Date <= target_date), 5)
        n == Len(recent_workouts)
    IN  IF n > 0
        THEN [recent_workouts |-> recent_workouts,
              last_workout_muscle_group |-> recent_workouts[n].MuscleGroup,
              last_workout_rpe |-> recent_workouts[n].RPE,
              days_since_last_workout |-> target_date - recent_workouts[n].Date,
              recovery_status |-> Engineer_assess_recovery_status(recent_workouts)]
        ELSE [recent_workouts |-> recent_workouts,
              last_workout_muscle_group |-> "None",
              last_workout_rpe |-> 0,
              days_since_last_workout |-> 999,
              recovery_status |-> "ready"]

InitContext ==
    /\ pc = "log"
    /\ df \in UNION {[1..n -> LogRows] : n \in 0..MaxLogRows}
    /\ csv_rows = <<>>
    /\ now \in {1, 2}
    /\ recent_context = <<>>
    /\ context_features = <<>>
    /\ NoCell
    /\ NoService

\* recommend_complete_workout: recent_context = self._get_recent_context(df)
GetRecentContext ==
    /\ pc = "log"
    /\ recent_context = <<>>
    /\ recent_context' = get_recent_context(df, now)
    /\ UNCHANGED <<pc, df, csv_rows, now, context_features, parseVars,
                   serviceVars>>

\* WorkoutFeatureEngineer(df).create_context_features()
CreateContextFeatures ==
    /\ pc = "log"
    /\ context_features = <<>>
    /\ \E self_df \in sort_values_Date(df) :
          context_features' = create_context_features(self_df, now)
    /\ UNCHANGED <<pc, df, csv_rows, now, recent_context, parseVars,
                   serviceVars>>

NextContext ==
    \/ GetRecentContext
    \/ CreateContextFeatures

SpecContext == InitContext /\ [][NextContext]_vars

(***************************************************************************)
(* Properties of the recovery status                                       *)
(***************************************************************************)
\* the status the rule gives to a window of recent entries
RecoveryRule(window, status) ==
    LET n == Cardinality({i \in DOMAIN window : window[i].RPE > 17})
    IN  /\ Len(window) <= 5
        /\ (n \in {3, 4, 5} => status = "needs_rest")
        /\ (n = 2 => status = "light_workout")
        /\ (n \in {0, 1} => status = "ready")
        /\ (window = <<>> => status = "ready")

Frac(n, d) == [num |-> n, den |-> d]

FracEq(a, b) == a.num * b.den = b.num * a.den

FracLess(a, b) == a.num * b.den < b.num * a.den

FracAdd(a, b) == [num |-> a.num * b.den + b.num * a.den, den |-> a.den * b.den]

\* s[:n] for n >= 0
PySlice(s, n) == SubSeq(s, 1, IF n < Len(s) THEN n ELSE Len(s))

\* x in s, for a list s
InList(x, s) == \E i \in DOMAIN s : s[i] = x

\* s.index(x)
ListIndex(s, x) == CHOOSE i \in DOMAIN s : s[i] = x /\ \A j \in 1..(i - 1) : s[j] # x

\* Series.unique(): the values in order of first appearance
Unique(s) ==
    LET firsts == {i \in DOMAIN s : \A j \in 1..(i - 1) : s[j] # s[i]}
    IN  [k \in 1..Cardinality(firsts) |->
            s[CHOOSE i \in firsts : Cardinality({j \in firsts : j <= i}) = k]]

ExerciseColumn(frame) == [i \in DOMAIN frame |-> frame[i].Exercise]

ExerciseCount(frame, ex) == Cardinality({i \in DOMAIN frame : frame[i].Exercise = ex})

\* a missing Exercise cell (NaN), among exercise names
NoName == "NaN"

\* the orders of a set of values
Orders(S) ==
    {s \in [1..Cardinality(S) -> S] : \A i, j \in DOMAIN s : i # j => s[i] # s[j]}

RECURSIVE OrdersByCount(_, _)
OrdersByCount(frame, exs) ==
    IF exs = {} THEN {<<>>}
    ELSE LET most == {e \in exs : \A f \in exs :
                          ExerciseCount(frame, e) >= ExerciseCount(frame, f)}
         IN  {a \o rest : a \in Orders(most),
                          rest \in OrdersByCount(frame, exs \ most)}

\* df['Exercise'].value_counts().index: the exercises by descending count,
\* missing names dropped; value_counts sorts with sort_values, which is not
\* stable, so exercises of equal count come out in any order
value_counts_index(frame) ==
    OrdersByCount(frame, {frame[i].Exercise : i \in DOMAIN frame} \ {NoName})

\* exercise_counts.head(20)
TopExercisesN == 20

\* set(df[df['Exercise'] == ex]['Date'].dt.date)
WorkoutDates(frame, ex) ==
    {frame[i].Date : i \in {k \in DOMAIN frame : frame[k].Exercise = ex}}

JaccardIntersectionOverFirst(ex1_workouts, ex2_workouts) ==
    LET intersection == Cardinality(ex1_workouts \cap ex2_workouts)
        size == Cardinality(ex1_workouts)
    IN  Frac(intersection, IF size > 1 THEN size ELSE 1)

\* intersection / max(union, 1)
Jaccard(ex1_workouts, ex2_workouts) ==
    LET intersection == Cardinality(ex1_workouts \cap ex2_workouts)
        union == Cardinality(ex1_workouts \cup ex2_workouts)
    IN  Frac(intersection, IF union > 1 THEN union ELSE 1)

\* CollaborativeFilteringModel._create_exercise_similarity: the matrix is
\* indexed by the position of an exercise in df['Exercise'].unique()
create_exercise_similarity(frame) ==
    LET exercises == Unique(ExerciseColumn(frame))
        n_exercises == Len(exercises)
    IN  [i \in 1..n_exercises |->
            [j \in 1..n_exercises |->
                IF i = j THEN Frac(1, 1)
                ELSE Jaccard(WorkoutDates(frame, exercises[i]),
                             WorkoutDates(frame, exercises[j]))]]

\* CollaborativeFilteringModel.fit, exercise_counts_index being the order
\* value_counts gave
CollaborativeFilteringModel_fit(frame, exercise_counts_index) ==
    LET top_exercises == PySlice(exercise_counts_index, TopExercisesN)
        df_filtered == SelectSeq(frame, LAMBDA r : InList(r.Exercise, top_exercises))
    IN  [top_exercises |-> top_exercises,
         exercise_similarity |-> create_exercise_similarity(df_filtered)]

\* the inner loop of recommend: score += exercise_similarity[idx1][idx2]
\* for each recent exercise that is in top_exercises
RECURSIVE SimilarityScore(_, _, _)
SimilarityScore(model, exercise, recent_exercises) ==
    IF recent_exercises = <<>> THEN Frac(0, 1)
    ELSE LET score == SimilarityScore(model, exercise,
                          SubSeq(recent_exercises, 1, Len(recent_exercises) - 1))
             recent_ex == recent_exercises[Len(recent_exercises)]
         IN  IF InList(recent_ex, model.top_exercises)
             THEN LET idx1 == ListIndex(model.top_exercises, exercise)
                      idx2 == ListIndex(model.top_exercises, recent_ex)
                  IN  FracAdd(score, model.exercise_similarity[idx1][idx2])
             ELSE score

\* sorted(items, key=score, reverse=True): a stable sort, items of equal
\* score keep their order
RECURSIVE SortedByScore(_, _)
SortedByScore(items, score) ==
    IF items = <<>> THEN <<>>
    ELSE LET rest == SortedByScore(SubSeq(items, 1, Len(items) - 1), score)
             x == items[Len(items)]
             p == Cardinality({i \in DOMAIN rest : ~FracLess(score[rest[i]], score[x])})
         IN  SubSeq(rest, 1, p) \o <<x>> \o SubSeq(rest, p + 1, Len(rest))

CollaborativeFilteringModel_recommend_any(model, recent_exercises, n_recommendations) ==
    IF recent_exercises = <<>>
    THEN PySlice(model.top_exercises, n_recommendations)
    ELSE LET exercise_scores ==
                 [ex \in {model.top_exercises[i] : i \in DOMAIN model.top_exercises} |->
                     LET score == SimilarityScore(model, ex, recent_exercises)
                     IN  Frac(score.num, score.den * Len(recent_exercises))]
         IN  PySlice(SortedByScore(model.top_exercises, exercise_scores),
                     n_recommendations)

\* CollaborativeFilteringModel.recommend
CollaborativeFilteringModel_recommend(model, recent_exercises, n_recommendations) ==
    IF recent_exercises = <<>>
    THEN PySlice(model.top_exercises, n_recommendations)
    ELSE LET candidates == SelectSeq(model.top_exercises,
                                     LAMBDA ex : ~InList(ex, recent_exercises))
             exercise_scores ==
                 [ex \in {candidates[i] : i \in DOMAIN candidates} |->
                     LET score == SimilarityScore(model, ex, recent_exercises)
                     IN  Frac(score.num, score.den * Len(recent_exercises))]
         IN  PySlice(SortedByScore(candidates, exercise_scores), n_recommendations)

(***************************************************************************)
(* Fitting a CollaborativeFilteringModel on a log and asking it for        *)
(* recommendations                                                         *)
(***************************************************************************)
MaxFitRows == 4

MaxRecent == 2

MaxK == 2

FitExercises == {"Squat", "Bench Press", "Deadlift"}

FitRows == {[Exercise |-> e, Date |-> d] : e \in FitExercises, d \in {1, 2}}

\* the lists of recent exercises asked about; "Pull Up" is in no log
RecentLists ==
    UNION {[1..n -> FitExercises \cup {"Pull Up"}] : n \in 0..MaxRecent}

InitCollab ==
    /\ pc = "collab"
    /\ df \in UNION {[1..n -> FitRows] : n \in 0..MaxFitRows}
    /\ csv_rows = <<>>
    /\ NoCell
    /\ NoContext
    /\ NoService

\* collaborative_model.fit(df, user_features)
CollabFit ==
    /\ pc = "collab"
    /\ collaborative_model = <<>>
    /\ \E exercise_counts_index \in value_counts_index(df) :
          collaborative_model' = CollaborativeFilteringModel_fit(df, exercise_counts_index)
    /\ pc' = "fitted"
    /\ UNCHANGED <<frameVars, parseVars, contextVars, loadVars,
                   recommender, request, result>>

\* collaborative_model.recommend(recent_exercises, n_recommendations)
CollabRecommend ==
    /\ pc = "fitted"
    /\ \E recent_exercises \in RecentLists, n_recommendations \in 1..MaxK :
          /\ request' = [recent_exercises |-> recent_exercises,
                         n_recommendations |-> n_recommendations]
          /\ result' = CollaborativeFilteringModel_recommend(
                           collaborative_model, recent_exercises, n_recommendations)
    /\ pc' = "recommended"
    /\ UNCHANGED <<frameVars, parseVars, contextVars, loadVars,
                   recommender, collaborative_model>>

NextCollab ==
    \/ CollabFit
    \/ CollabRecommend

SpecCollab == InitCollab /\ [][NextCollab]_vars

(***************************************************************************)
(* Properties of the collaborative model                                   *)
(***************************************************************************)
\* C11: after fit on any log the similarity matrix is symmetric, has 1.0 on
\* every diagonal entry, and every off-diagonal entry is the Jaccard index
\* (intersection over union) of the session-date sets of the two exercises
\* the matrix holds at that row and column, 0 when the union is empty.
C11_SimilarityIsSymmetricJaccard ==
    collaborative_model # <<>> =>
        LET m == collaborative_model.exercise_similarity
            exercises == Unique(ExerciseColumn(df))
        IN  /\ DOMAIN m = 1..Len(exercises)
            /\ \A i, j \in DOMAIN m :
                 /\ m[i][j] = m[j][i]
                 /\ (i = j => m[i][j].num = 1 /\ m[i][j].den = 1)
                 /\ (i # j =>
                       LET a == WorkoutDates(df, exercises[i])
                           b == WorkoutDates(df, exercises[j])
                       IN  /\ (a \cup b = {} => m[i][j].num = 0)
                           /\ m[i][j].num * Cardinality(a \cup b)
                                = Cardinality(a \cap b) * m[i][j].den)

\* C11 witness: a fitted matrix with an off-diagonal entry strictly between
\* 0 and 1, two exercises that share one session date but not all
C11_Witness ==
    /\ collaborative_model # <<>>
    /\ \E i, j \in DOMAIN collaborative_model.exercise_similarity :
          /\ i # j
          /\ collaborative_model.exercise_similarity[i][j].num = 1
          /\ collaborative_model.exercise_similarity[i][j].den = 2

\* the score the rule gives a candidate: the Jaccard indices of the session
\* dates of the candidate and of each recent exercise that was fitted, summed
\* and divided by the number of recent exercises
RECURSIVE JaccardScoreSum(_, _, _, _)
JaccardScoreSum(frame, top, candidate, recent) ==
    IF recent = <<>> THEN Frac(0, 1)
    ELSE LET rest == JaccardScoreSum(frame, top, candidate,
                                     SubSeq(recent, 1, Len(recent) - 1))
             r == recent[Len(recent)]
         IN  IF InList(r, top)
             THEN FracAdd(rest, Jaccard(WorkoutDates(frame, candidate),
                                        WorkoutDates(frame, r)))
             ELSE rest

RankedByJaccard(frame, top, recent, k) ==
    LET candidates == SelectSeq(top, LAMBDA ex : ~InList(ex, recent))
        score == [c \in {candidates[i] : i \in DOMAIN candidates} |->
                     LET s == JaccardScoreSum(frame, top, c, recent)
                     IN  Frac(s.num, s.den * Len(recent))]
    IN  PySlice(SortedByScore(candidates, score), k)

\* C20: for a non-empty recent list, recommend returns the fitted exercises
\* not in the recent list in descending order of score, ties in candidate
\* order, truncated to k, where the score of a candidate c is the sum over
\* the fitted recent exercises r of the Jaccard index of the session dates
\* of c and r, divided by the length of the recent list -- whatever the
\* order in which the exercises first appear in the log.
C20_RankedByJaccardOfThePair ==
    (pc = "recommended" /\ request.recent_exercises # <<>>) =>
        result = RankedByJaccard(df, collaborative_model.top_exercises,
                                 request.recent_exercises,
                                 request.n_recommendations)

(***************************************************************************)
(* ContentBasedModel, HybridRecommendationModel and WorkoutSequenceModel   *)
(* (utils/ml_models.py)                                                    *)
(*                                                                         *)
(* The content model ranks exercises by the cosine similarity of vectors   *)
(* that StandardScaler and PCA computed; these real numbers are not        *)
(* computed here.  The model holds the exercises that have a vector, and a *)
(* ranking by similarity is any order of the candidates.  A call that may  *)
(* raise gives a record with the name of the exception in exc ("none" when *)
(* it returns), and a call whose result is left open gives the set of its  *)
(* outcomes.                                                               *)
(***************************************************************************)
\* PCA(n_components=10)
PcaComponents == 10

\* the length of an embedding: six characteristics and six muscle groups
EmbeddingLength == 12

\* create_exercise_embeddings(df): the exercises that get an embedding, in
\* order of first appearance; exercise.lower() raises AttributeError on a
\* missing name
create_exercise_embeddings(frame) ==
    LET exercises == Unique(ExerciseColumn(frame))
    IN  IF InList(NoName, exercises)
        THEN [exc |-> "AttributeError", embeddings |-> <<>>]
        ELSE [exc |-> "none", embeddings |-> exercises]

\* ContentBasedModel.fit: scaler.fit_transform raises ValueError on the
\* empty matrix, and pca.fit_transform raises ValueError when n_components
\* exceeds min(n_samples, n_features)
ContentBasedModel_fit(exercise_embeddings) ==
    LET exercises == exercise_embeddings
        n_samples == Len(exercises)
        smaller == IF n_samples < EmbeddingLength THEN n_samples ELSE EmbeddingLength
    IN  IF n_samples = 0 \/ PcaComponents > smaller
        THEN [exc |-> "ValueError",
              model |-> [exercise_features |-> exercise_embeddings,
                         fitted |-> FALSE,
                         processed_features |-> <<>>]]
        ELSE [exc |-> "none",
              model |-> [exercise_features |-> exercise_embeddings,
                         fitted |-> TRUE,
                         processed_features |-> exercises]]

\* the first n of the candidates in any order: sorted(...)[:n] by a score
\* that is left open
Rankings(candidates, n) ==
    LET S == {candidates[i] : i \in DOMAIN candidates}
        m == IF n < Cardinality(S) THEN n ELSE Cardinality(S)
    IN  {s \in [1..m -> S] : \A i, j \in 1..m : i # j => s[i] # s[j]}

\* ContentBasedModel.recommend: with no preferred exercise among the
\* processed ones the preference vector is np.mean of an empty list, and
\* cosine_similarity raises ValueError on it for the first candidate
ContentBasedModel_recommend(model, preferred_exercises, n_recommendations) ==
    IF preferred_exercises = <<>>
    THEN {[exc |-> "none", recs |-> PySlice(model.processed_features, n_recommendations)]}
    ELSE LET candidates == SelectSeq(model.processed_features,
                                     LAMBDA ex : ~InList(ex, preferred_exercises))
             known == SelectSeq(preferred_exercises,
                                LAMBDA ex : InList(ex, model.processed_features))
         IN  IF known = <<>> /\ candidates # <<>>
             THEN {[exc |-> "ValueError", recs |-> <<>>]}
             ELSE {[exc |-> "none", recs |-> s] :
                      s \in Rankings(candidates, n_recommendations)}

\* HybridRecommendationModel._get_context_adjustments: the factor of an
\* exercise, 1.0 when it has none
ContextAdjustment(context, exercise) ==
    IF /\ context.recovery_status = "needs_rest"
       /\ exercise \in {"Calf Raises", "Lateral Raises", "Facepulls"}
    THEN Frac(15, 10)
    ELSE IF /\ context.recovery_status = "light_workout"
            /\ exercise \in {"Arnold Press", "Cable Rows", "Leg Press"}
    THEN Frac(13, 10)
    ELSE Frac(1, 1)

\* weight * (1 - i / len(recs)) for the exercise at 0-based position i of
\* recs, in tenths of weight; 0 for an exercise that is not in recs
PositionScore(weight, recs, exercise) ==
    IF InList(exercise, recs)
    THEN Frac(weight * (Len(recs) - (ListIndex(recs, exercise) - 1)), 10 * Len(recs))
    ELSE Frac(0, 1)

\* sorted(combined_scores.items(), key=..., reverse=True): the scores are
\* floats, sums and products of 0.6, 0.4, 1.5, 1.3 and quotients; two
\* exercises whose exact scores are equal may get floats that differ in the
\* last place, so they come out in either order
RECURSIVE DescendingOrders(_, _)
DescendingOrders(S, score) ==
    IF S = {} THEN {<<>>}
    ELSE LET top == {x \in S : \A y \in S : ~FracLess(score[x], score[y])}
         IN  {a \o rest : a \in Orders(top),
                          rest \in DescendingOrders(S \ top, score)}

CombineRecommendationsUnadjusted(collab_recs, content_recs, context, n_recommendations) ==
    LET keys == Unique(collab_recs \o content_recs)
        combined_scores ==
            [ex \in {keys[i] : i \in DOMAIN keys} |->
                FracAdd(PositionScore(6, collab_recs, ex),
                        PositionScore(4, content_recs, ex))]
    IN  {PySlice(sorted_exercises, n_recommendations) :
            sorted_exercises \in DescendingOrders(DOMAIN combined_scores, combined_scores)}

\* the combination of HybridRecommendationModel.recommend, for the lists
\* the two models gave (collaborative_weight 0.6, content_weight 0.4): the
\* lists it may return
CombineRecommendations(collab_recs, content_recs, context, n_recommendations) ==
    LET keys == Unique(collab_recs \o content_recs)
        combined_scores ==
            [ex \in {keys[i] : i \in DOMAIN keys} |->
                LET sum == FracAdd(PositionScore(6, collab_recs, ex),
                                   PositionScore(4, content_recs, ex))
                    adj == ContextAdjustment(context, ex)
                IN  Frac(sum.num * adj.num, sum.den * adj.den)]
    IN  {PySlice(sorted_exercises, n_recommendations) :
            sorted_exercises \in DescendingOrders(DOMAIN combined_scores, combined_scores)}

\* HybridRecommendationModel.recommend: the outcomes, and the lists the two
\* models gave
HybridRecommendationModel_recommend(hybrid, recent_exercises, context, n_recommendations) ==
    LET collab_recs == CollaborativeFilteringModel_recommend(
                           hybrid.collaborative_model, recent_exercises,
                           n_recommendations * 2)
        contents == ContentBasedModel_recommend(
                        hybrid.content_model, recent_exercises,
                        n_recommendations * 2)
    IN  {[exc |-> content.exc, recs |-> <<>>, collab_recs |-> collab_recs,
          content_recs |-> <<>>] :
            content \in {c \in contents : c.exc # "none"}}
        \cup
        UNION {{[exc |-> "none", recs |-> recs, collab_recs |-> collab_recs,
                 content_recs |-> content.recs] :
                   recs \in CombineRecommendations(collab_recs, content.recs,
                                                   context, n_recommendations)} :
               content \in {c \in contents : c.exc = "none"}}

\* WorkoutSequenceModel(sequence_length=5)
SequenceLength == 5

\* WorkoutSequenceModel.fit: the exercises of the windows of 5 successive
\* workout days; self.exercises = list(set), in no particular order, so
\* the set is kept.  Without a missing date every day is in a window once
\* there are 5 days.
WorkoutSequenceModel_fit(frame) ==
    LET days == {frame[i].Date : i \in DOMAIN frame}
    IN  [exercises |-> IF Cardinality(days) >= SequenceLength
                       THEN {frame[i].Exercise : i \in DOMAIN frame}
                       ELSE {}]

\* WorkoutSequenceModel.recommend_next: only the diagonal of the transition
\* matrix is counted, so every candidate has probability 0 and the stable
\* sort returns them in the order of self.exercises
WorkoutSequenceModel_recommend_next(model, current_sequence, n_recommendations) ==
    LET candidates == {ex \in model.exercises : ~InList(ex, current_sequence)}
        m == IF n_recommendations < Cardinality(candidates)
             THEN n_recommendations ELSE Cardinality(candidates)
    IN  {s \in [1..m -> candidates] : \A i, j \in 1..m : i # j => s[i] # s[j]}

(***************************************************************************)
(* MLWorkoutRecommender (utils/ml_recommender.py)                          *)
(*                                                                         *)
(* The recommender is the record of its attributes; "None" stands for      *)
(* None.  A log is a sequence of rows with the columns the recommender     *)
(* reads; the empty sequence is pd.DataFrame(), which has no columns.      *)
(***************************************************************************)
\* MLWorkoutRecommender.__init__ (collaborative_model and content_model do
\* not exist before the first train)
FreshRecommender ==
    [feature_engineer |-> "None",
     exercise_embeddings |-> "None",
     collaborative_model |-> "None",
     content_model |-> "None",
     hybrid_model |-> "None",
     sequence_model |-> "None",
     is_trained |-> FALSE]

\* the columns of a row that create_context_features reads
ContextRows(frame) ==
    [i \in DOMAIN frame |-> [Date |-> frame[i].Date, RPE |-> frame[i].RPE,
                             MuscleGroup |-> frame[i].MuscleGroup]]

\* df.sort_values('Date').tail(n): the last n rows of the arrangements of
\* frame by date.  The rows after the date at which the tail starts are all
\* in it, in an order sort_values may give; of the rows of that date any
\* selection is.
SortedTails(frame, n) ==
    LET m == IF n < Len(frame) THEN n ELSE Len(frame)
        after(d) == Cardinality({i \in DOMAIN frame : frame[i].Date > d})
        occ(s, v) == Cardinality({i \in DOMAIN s : s[i] = v})
    IN  IF m = 0 THEN {<<>>}
        ELSE LET first == CHOOSE d \in {frame[i].Date : i \in DOMAIN frame} :
                              /\ after(d) < m
                              /\ after(d) + Len(RowsOn(frame, d)) >= m
                 later == SelectSeq(frame, LAMBDA r : r.Date > first)
                 group == RowsOn(frame, first)
                 vals == {group[i] : i \in DOMAIN group}
                 heads == {s \in [1..(m - Len(later)) -> vals] :
                              \A v \in vals : occ(s, v) <= occ(group, v)}
             IN  {h \o l : h \in heads, l \in sort_values_Date(later)}

\* WorkoutFeatureEngineer(df) at time t: self.df is df sorted by date; of it
\* the rows create_context_features() reads at t are kept, the last 5 rows
\* dated up to t
WorkoutFeatureEngineer(frame, t) ==
    {[df |-> frame, tail |-> tail] :
        tail \in SortedTails(SelectSeq(ContextRows(frame), LAMBDA r : r.Date <= t), 5)}

\* MLWorkoutRecommender.train at time t: the recommender and the value
\* returned, for each outcome of the sorts.  An exception leaves the
\* attributes assigned before it and returns False.  get_all_features and
\* WorkoutSequenceModel.fit raise nothing on a log with rows (with pandas 2,
\* where the dates of Series.unique() are Timestamps).
MLWorkoutRecommender_train(self, frame, t) ==
    IF frame = <<>>
    THEN \* self.df['Date'] raises KeyError in WorkoutFeatureEngineer.__init__
         {[self |-> self, returned |-> FALSE]}
    ELSE LET embeddings == create_exercise_embeddings(frame)
             content == ContentBasedModel_fit(embeddings.embeddings)
         IN  {IF embeddings.exc # "none"
              THEN [self |-> [self EXCEPT !.feature_engineer = engineer],
                    returned |-> FALSE]
              ELSE IF content.exc # "none"
              THEN [self |-> [self EXCEPT
                                !.feature_engineer = engineer,
                                !.exercise_embeddings = embeddings.embeddings,
                                !.collaborative_model =
                                    CollaborativeFilteringModel_fit(frame, order),
                                !.content_model = content.model],
                    returned |-> FALSE]
              ELSE [self |-> [feature_engineer |-> engineer,
                              exercise_embeddings |-> embeddings.embeddings,
                              collaborative_model |->
                                  CollaborativeFilteringModel_fit(frame, order),
                              content_model |-> content.model,
                              sequence_model |-> WorkoutSequenceModel_fit(frame),
                              hybrid_model |->
                                  [collaborative_model |->
                                       CollaborativeFilteringModel_fit(frame, order),
                                   content_model |-> content.model],
                              is_trained |-> TRUE],
                    returned |-> TRUE] :
                engineer \in WorkoutFeatureEngineer(frame, t),
                order \in value_counts_index(frame)}

\* MLWorkoutRecommender._get_recent_exercises(df, days=7) at time t
get_recent_exercises(frame, t) ==
    Unique(ExerciseColumn(SelectSeq(frame, LAMBDA r : r.Date >= t - 7)))

\* the muscle groups in the order groupby('Muscle Group') lists them
MuscleGroupNames ==
    <<"Arms", "Back", "Biceps", "Chest", "Legs", "Recovery", "Shoulders", "Triceps">>

\* round(): to the nearest integer, a half to the even one (num >= 0, den > 0)
RoundHalfEven(num, den) ==
    LET q == num \div den
        r == num % den
    IN  IF 2 * r < den THEN q
        ELSE IF 2 * r > den THEN q + 1
        ELSE IF q % 2 = 0 THEN q ELSE q + 1

\* df.groupby('Muscle Group')['Total_Volume'].sum() for one group
MuscleVolume(frame, g) ==
    SumSet([i \in DOMAIN frame |-> frame[i].Total_Volume],
           {i \in DOMAIN frame : frame[i].MuscleGroup = g})

\* MLWorkoutRecommender._analyze_muscle_balance: weakest_muscle_group, the
\* first group other than Recovery with the least percentage (in tenths)
analyze_muscle_balance(frame) ==
    LET present == SelectSeq(MuscleGroupNames,
                       LAMBDA g : \E i \in DOMAIN frame : frame[i].MuscleGroup = g)
        volume_sum == SumSet([i \in DOMAIN present |-> MuscleVolume(frame, present[i])],
                                DOMAIN present)
        pct(g) == RoundHalfEven(MuscleVolume(frame, g) * 1000, volume_sum)
        non_recovery == SelectSeq(present, LAMBDA g : g # "Recovery")
    IN  IF volume_sum = 0 \/ non_recovery = <<>> THEN "None"
        ELSE non_recovery[CHOOSE i \in DOMAIN non_recovery :
                 /\ \A j \in DOMAIN non_recovery :
                        pct(non_recovery[i]) <= pct(non_recovery[j])
                 /\ \A j \in 1..(i - 1) :
                        pct(non_recovery[j]) > pct(non_recovery[i])]

\* MLWorkoutRecommender._get_exercises_for_muscle_group
get_exercises_for_muscle_group(muscle_group, frame) ==
    PySlice(Unique(ExerciseColumn(
                SelectSeq(frame, LAMBDA r : r.MuscleGroup = muscle_group))), 5)

\* MLWorkoutRecommender._get_opposite_muscle_groups
get_opposite_muscle_groups(muscle_group) ==
    CASE muscle_group = "Chest" -> <<"Back", "Legs">>
      [] muscle_group = "Back" -> <<"Chest", "Legs">>
      [] muscle_group = "Legs" -> <<"Chest", "Back", "Shoulders">>
      [] muscle_group = "Shoulders" -> <<"Legs", "Back">>
      [] muscle_group = "Arms" -> <<"Legs", "Chest">>
      [] muscle_group = "Biceps" -> <<"Triceps", "Legs">>
      [] muscle_group = "Triceps" -> <<"Biceps", "Legs">>
      [] OTHER -> <<>>

RECURSIVE ExercisesForGroups(_, _)
ExercisesForGroups(groups, frame) ==
    IF groups = <<>> THEN <<>>
    ELSE get_exercises_for_muscle_group(Head(groups), frame)
           \o ExercisesForGroups(Tail(groups), frame)

\* MLWorkoutRecommender._get_context_aware_recommendations: the list
get_context_aware_recommendations(frame, context, n_recommendations) ==
    LET weakest == analyze_muscle_balance(frame)
        recovery_status == context.recovery_status
        last_muscle_group == context.last_workout_muscle_group
        recommendations ==
            IF recovery_status = "needs_rest"
            THEN <<"Rest Day", "Light Stretching", "Walking">>
            ELSE IF recovery_status = "light_workout"
            THEN <<"Calf Raises", "Lateral Raises", "Facepulls", "Light Cardio">>
            ELSE (IF weakest # "None"
                  THEN get_exercises_for_muscle_group(weakest, frame)
                  ELSE <<>>)
                 \o (IF last_muscle_group \notin {"None", "Recovery"}
                     THEN PySlice(ExercisesForGroups(
                              get_opposite_muscle_groups(last_muscle_group), frame), 3)
                     ELSE <<>>)
    IN  PySlice(Unique(recommendations), n_recommendations)

\* the strategies of get_recommendations, and one it does not know
RecommendationTypes ==
    {"hybrid", "collaborative", "content", "sequence", "context_aware", "other"}

ErrorResult(message) == [error |-> message]

Recommendations(type, recommendations) ==
    [type |-> type, recommendations |-> recommendations]

\* MLWorkoutRecommender.get_recommendations at time t: the locals
\* context_features and recent_exercises, the lists the hybrid model got
\* from its two models, and the value returned, for each outcome of the
\* rankings.  _generate_reasoning joins the first three
\* recent exercises, which raises TypeError on a missing name; any
\* exception gives the error object.
MLWorkoutRecommender_get_recommendations(self, frame, recommendation_type, n_recommendations, t) ==
    IF ~self.is_trained
    THEN {[context |-> <<>>, recent_exercises |-> <<>>, hybrid_lists |-> <<>>,
           returned |-> ErrorResult("Models not trained yet")]}
    ELSE LET context == create_context_features(self.feature_engineer.tail, t)
             recent_exercises == get_recent_exercises(frame, t)
             failed == ErrorResult("Error generating recommendations")
             reasoning_raises == InList(NoName, PySlice(recent_exercises, 3))
             out(returned) == [context |-> context,
                               recent_exercises |-> recent_exercises,
                               hybrid_lists |-> <<>>,
                               returned |-> returned]
         IN  IF frame = <<>>
             THEN \* df['Date'] raises KeyError
                  {[context |-> context, recent_exercises |-> <<>>,
                    hybrid_lists |-> <<>>, returned |-> failed]}
             ELSE IF recommendation_type = "hybrid"
             THEN {[out(IF o.exc # "none" \/ reasoning_raises THEN failed
                        ELSE Recommendations("Hybrid (Collaborative + Content + Context)",
                                             o.recs))
                    EXCEPT !.hybrid_lists = [collab_recs |-> o.collab_recs,
                                             content_recs |-> o.content_recs]] :
                      o \in HybridRecommendationModel_recommend(
                                self.hybrid_model, recent_exercises, context,
                                n_recommendations)}
             ELSE IF recommendation_type = "collaborative"
             THEN {out(IF reasoning_raises THEN failed
                       ELSE Recommendations("Collaborative Filtering",
                                CollaborativeFilteringModel_recommend(
                                    self.hybrid_model.collaborative_model,
                                    recent_exercises, n_recommendations)))}
             ELSE IF recommendation_type = "content"
             THEN {out(IF o.exc # "none" \/ reasoning_raises THEN failed
                       ELSE Recommendations("Content-Based Filtering", o.recs)) :
                      o \in ContentBasedModel_recommend(
                                self.hybrid_model.content_model, recent_exercises,
                                n_recommendations)}
             ELSE IF recommendation_type = "sequence"
             THEN {out(IF reasoning_raises THEN failed
                       ELSE Recommendations("Sequence-Based", recs)) :
                      recs \in WorkoutSequenceModel_recommend_next(
                                   self.sequence_model, recent_exercises,
                                   n_recommendations)}
             ELSE IF recommendation_type = "context_aware"
             THEN {out(Recommendations("Context-Aware",
                           get_context_aware_recommendations(frame, context,
                                                             n_recommendations)))}
             ELSE \* recommendations = {} is returned as it is
                  {out(<<>>)}

\* MLWorkoutRecommender._calculate_prediction_accuracy: the number of
\* predictions made is computed; whether a prediction holds the next
\* exercise depends on the content ranking, so the number of correct ones
\* is left open
calculate_prediction_accuracy(self, frame) ==
    IF Len(frame) < 10 THEN {Frac(0, 1)}
    ELSE LET fifth == Len(frame) \div 5
             test_size == IF fifth > 1 THEN fifth ELSE 1
             recent(i) == ExerciseColumn(DfTail(SubSeq(frame, 1, Len(frame) - test_size + i), 3))
             raises(i) ==
                 /\ \A k \in DOMAIN recent(i) :
                        ~InList(recent(i)[k], self.hybrid_model.content_model.processed_features)
                 /\ \E k \in DOMAIN self.hybrid_model.content_model.processed_features :
                        ~InList(self.hybrid_model.content_model.processed_features[k], recent(i))
             total_predictions == Cardinality({i \in 0..(test_size - 2) : ~raises(i)})
         IN  {Frac(correct_predictions,
                   IF total_predictions > 1 THEN total_predictions ELSE 1) :
                 correct_predictions \in 0..total_predictions}

\* MLWorkoutRecommender.get_model_performance
MLWorkoutRecommender_get_model_performance(self, frame) ==
    IF ~self.is_trained THEN {ErrorResult("Models not trained yet")}
    ELSE IF frame = <<>>
    THEN \* df['Exercise'] raises KeyError
         {ErrorResult("Error calculating performance")}
    ELSE {[total_workouts |-> Len(frame),
           unique_exercises |->
               Cardinality({frame[i].Exercise : i \in DOMAIN frame} \ {NoName}),
           muscle_groups |-> Cardinality({frame[i].MuscleGroup : i \in DOMAIN frame}),
           prediction_accuracy |-> accuracy,
           model_status |-> "Trained and Ready"] :
             accuracy \in calculate_prediction_accuracy(self, frame)}

(***************************************************************************)
(* A session of the recommendations page (pages/ml_recommendations.py):    *)
(* the log grows by appended entries, the recommender is trained and asked *)
(* for recommendations and for its performance.                            *)
(***************************************************************************)
ServiceExercises ==
    <<"Calf Raises", "Leg Press", "Squat", "Bench Press", "Deadlift", "Barbell Row",
      "Lateral Raises", "Arnold Press", "Cable Rows", "Facepulls", "Pull Up",
      "Lat Pulldown">>

MaxLogExercises == 10

MaxAppends == 2

\* days: the session runs on day ServiceNow; RecentDay is within the last
\* 7 days, OldDay is not
ServiceNow == 20

OldDay == 5

RecentDay == 18

\* a log of the first n exercises, the i-th logged i times; with dating
\* "two" the first three exercises were done on OldDay and the others on
\* RecentDay, with dating "one" all were done on RecentDay
BaseLog(n, dating) ==
    LET ex(j) == CHOOSE i \in 1..n : ((i - 1) * i) \div 2 < j /\ j <= (i * (i + 1)) \div 2
    IN  [j \in 1..((n * (n + 1)) \div 2) |->
            [Exercise |-> ServiceExercises[ex(j)],
             Date |-> IF dating = "two" /\ ex(j) <= 3 THEN OldDay ELSE RecentDay,
             RPE |-> 16,
             MuscleGroup |-> IF ex(j) <= 3 THEN "Legs" ELSE "Back",
             Total_Volume |-> 1000]]

BaseLogs ==
    {BaseLog(n, dating) : n \in {0, 4} \cup 9..MaxLogExercises, dating \in {"one", "two"}}

\* the entries a user appends during the session, dated yesterday
AppendedRows ==
    {[Exercise |-> "Squat", Date |-> ServiceNow - 1, RPE |-> 19,
      MuscleGroup |-> "Legs", Total_Volume |-> 2000],
     [Exercise |-> "Lunge", Date |-> ServiceNow - 1, RPE |-> 19,
      MuscleGroup |-> "Legs", Total_Volume |-> 500],
     [Exercise |-> NoName, Date |-> ServiceNow - 1, RPE |-> 16,
      MuscleGroup |-> "Legs", Total_Volume |-> 0]}

InitService ==
    /\ pc = "idle"
    /\ csv_rows \in BaseLogs
    /\ df = csv_rows
    /\ now = ServiceNow
    /\ recommender = FreshRecommender
    /\ request = <<>>
    /\ result = <<>>
    /\ recent_context = <<>>
    /\ context_features = <<>>
    /\ csv_file = <<>>
    /\ st_error = <<>>
    /\ recommendation_history = <<>>
    /\ collaborative_model = <<>>
    /\ NoCell

\* the user logs one more entry (workouts.csv grows)
AppendEntry ==
    /\ pc = "idle"
    /\ Len(df) < Len(csv_rows) + MaxAppends
    /\ \E row \in AppendedRows : df' = Append(df, row)
    /\ UNCHANGED <<pc, csv_rows, parseVars, contextVars, serviceVars>>

\* the page trains a recommender that is not trained:
\* if not recommender.is_trained: success = recommender.train(df)
Train ==
    /\ pc = "idle"
    /\ ~recommender.is_trained
    /\ \E o \in MLWorkoutRecommender_train(recommender, df, now) :
          /\ recommender' = o.self
          /\ result' = o.returned
    /\ request' = [op |-> "train"]
    /\ pc' = "returned"
    /\ UNCHANGED <<frameVars, parseVars, contextVars, loadVars, collaborative_model>>

\* recommender.get_recommendations(df, recommendation_type, n_recommendations)
GetRecommendations ==
    /\ pc = "idle"
    /\ \E recommendation_type \in RecommendationTypes, n_recommendations \in 1..MaxK :
          \E o \in MLWorkoutRecommender_get_recommendations(
                       recommender, df, recommendation_type, n_recommendations, now) :
             /\ request' = [op |-> "get_recommendations",
                            recommendation_type |-> recommendation_type,
                            n_recommendations |-> n_recommendations,
                            recent_exercises |-> o.recent_exercises,
                            context |-> o.context,
                            hybrid_lists |-> o.hybrid_lists]
             /\ result' = o.returned
    /\ pc' = "returned"
    /\ UNCHANGED <<frameVars, parseVars, contextVars, loadVars, collaborative_model,
                   recommender>>

\* recommender.get_model_performance(df)
GetModelPerformance ==
    /\ pc = "idle"
    /\ \E o \in MLWorkoutRecommender_get_model_performance(recommender, df) :
          result' = o
    /\ request' = [op |-> "get_model_performance"]
    /\ pc' = "returned"
    /\ UNCHANGED <<frameVars, parseVars, contextVars, loadVars, collaborative_model,
                   recommender>>

\* the page has rendered what the call returned
Rendered ==
    /\ pc = "returned"
    /\ pc' = "idle"
    /\ request' = <<>>
    /\ result' = <<>>
    /\ UNCHANGED <<frameVars, parseVars, contextVars, loadVars, collaborative_model,
                   recommender>>

NextService ==
    \/ AppendEntry
    \/ Train
    \/ GetRecommendations
    \/ GetModelPerformance
    \/ Rendered

SpecService == InitService /\ [][NextService]_vars

(***************************************************************************)
(* Properties of the recommender                                           *)
(***************************************************************************)
DistinctDates(frame) == {frame[i].Date : i \in DOMAIN frame}

DistinctExercises(frame) == {frame[i].Exercise : i \in DOMAIN frame} \ {NoName}

FiveStrategies == {"hybrid", "collaborative", "content", "sequence", "context_aware"}

\* C12: no exercise that HybridRecommendationModel.recommend returns is in
\* the list of recent exercises it was given, for every fitted model, every
\* recent list and every number of recommendations.
C12_HybridExcludesRecent ==
    (/\ pc = "returned"
     /\ request.op = "get_recommendations"
     /\ request.recommendation_type = "hybrid"
     /\ "recommendations" \in DOMAIN result) =>
        \A i \in DOMAIN result.recommendations :
            ~InList(result.recommendations[i], request.recent_exercises)

\* C12 witness: a hybrid call that returned recommendations although the
\* user had recently done some of the fitted exercises
C12_Witness ==
    /\ pc = "returned"
    /\ request.op = "get_recommendations"
    /\ request.recommendation_type = "hybrid"
    /\ "recommendations" \in DOMAIN result
    /\ result.recommendations # <<>>
    /\ \E i \in DOMAIN request.recent_exercises :
          InList(request.recent_exercises[i],
                 recommender.hybrid_model.collaborative_model.top_exercises)

\* C13: train returns False and leaves the recommender untrained whenever
\* the log is empty or has fewer than 2 distinct dates.
C13_TrainFailsOnShortHistory ==
    (/\ pc = "returned"
     /\ request.op = "train"
     /\ Cardinality(DistinctDates(df)) < 2) =>
        /\ result = FALSE
        /\ ~recommender.is_trained

\* C14: on every log with at least 2 distinct dates, whatever its number of
\* distinct exercises, train succeeds, and get_recommendations of the
\* recommender trained on it returns a result without an error key for each
\* of the five strategies.
C14_TrainSucceedsOnTwoDates ==
    /\ (/\ pc = "returned"
        /\ request.op = "train"
        /\ Cardinality(DistinctDates(df)) >= 2) =>
           result = TRUE
    /\ (/\ pc = "returned"
        /\ request.op = "get_recommendations"
        /\ request.recommendation_type \in FiveStrategies
        /\ Cardinality(DistinctDates(df)) >= 2
        /\ recommender.is_trained
        /\ recommender.feature_engineer.df = df) =>
           "error" \notin DOMAIN result

\* the context the entries of a log give at time t: recovery status, muscle
\* group of the last workout and days since the last workout
ContextsOfLog(frame, t) ==
    {LET c == create_context_features(tail, t)
     IN  [recovery_status |-> c.recovery_status,
          last_workout_muscle_group |-> c.last_workout_muscle_group,
          days_since_last_workout |-> c.days_since_last_workout] :
        tail \in SortedTails(SelectSeq(ContextRows(frame), LAMBDA r : r.Date <= t), 5)}

\* C17: the context a get_recommendations call uses (recovery status, muscle
\* group of the last workout, days since the last workout) is derived from the
\* log passed to that call, also when entries were appended after train.
C17_ContextFromRequestLog ==
    (/\ pc = "returned"
     /\ request.op = "get_recommendations"
     /\ recommender.is_trained
     /\ df # <<>>) =>
        [recovery_status |-> request.context.recovery_status,
         last_workout_muscle_group |-> request.context.last_workout_muscle_group,
         days_since_last_workout |-> request.context.days_since_last_workout]
            \in ContextsOfLog(df, now)

(***************************************************************************)
(* The two recent-workout contexts compared                                *)
(***************************************************************************)
\* C19: for every log, in any row order, the recovery status of the
\* planner's recent context equals the recovery status of the feature
\* engineer's context features computed for the same log at the same time.
C19_PlannerAndEngineerAgreeOnRecovery ==
    (recent_context # <<>> /\ context_features # <<>>) =>
        recent_context.recovery_status = context_features.recovery_status

(***************************************************************************)
(* load_workout_data, lines 15-32: reading workouts.csv and validating     *)
(* its columns, followed by the rest of the function                       *)
(*                                                                         *)
(* A message is held as the sequence of the pieces it is joined from.      *)
(***************************************************************************)
REQUIRED_COLUMNS ==
    <<"Date", "Exercise", "Sets x Reps x Weight", "RPE", "Muscle Group">>

RequiredColumnSet == {REQUIRED_COLUMNS[i] : i \in DOMAIN REQUIRED_COLUMNS}

\* the field of a row that holds the cell of a column
ColumnField ==
    ("Date" :> "Date") @@ ("Exercise" :> "Exercise") @@
    ("Sets x Reps x Weight" :> "SetsRepsWeight") @@ ("RPE" :> "RPE") @@
    ("Muscle Group" :> "MuscleGroup")

\* the largest number of well-formed lines in workouts.csv
MaxReadRows == 1

\* the header lines: any of the required columns, and a header with one
\* more column (of the cells of a line the frame keeps those of the
\* required columns, the only ones the program reads)
CsvHeaders == (SUBSET RequiredColumnSet) \cup {RequiredColumnSet \cup {"Notes"}}

\* workouts.csv: what open/parse does (status), what the permissive parser
\* does after a ParserError (permissive), the header and the well-formed
\* lines
CsvFiles ==
    {[status |-> "FileNotFoundError", permissive |-> "none",
      columns |-> {}, rows |-> <<>>]}
    \cup
    {[status |-> s[1], permissive |-> s[2], columns |-> h, rows |-> r] :
        s \in {<<"ok", "none">>, <<"ParserError", "ok">>,
               <<"ParserError", "ParserError">>,
               <<"PermissionError", "none">>, <<"EmptyDataError", "none">>},
        h \in CsvHeaders,
        r \in UNION {[1..n -> CsvRows] : n \in 0..MaxReadRows}}

\* the cells of a line under the columns of the header
RowUnder(row, columns) ==
    [f \in {ColumnField[c] : c \in columns \cap RequiredColumnSet} |-> row[f]]

\* pd.read_csv(csv_path) and pd.read_csv(csv_path, engine='python',
\* on_bad_lines='skip')
read_csv(file, engine) ==
    LET frame == [exc |-> "none", columns |-> file.columns,
                  rows |-> [i \in DOMAIN file.rows |->
                               RowUnder(file.rows[i], file.columns)]]
        raised(e) == [exc |-> e, columns |-> {}, rows |-> <<>>]
    IN  IF file.status = "ok" THEN frame
        ELSE IF file.status = "ParserError" /\ engine = "python"
             THEN IF file.permissive = "ok" THEN frame
                  ELSE raised(file.permissive)
             ELSE raised(file.status)

\* the inner try of load_workout_data: the retry on ParserError
read_with_retry(file) ==
    LET first == read_csv(file, "c")
    IN  IF first.exc = "ParserError" THEN read_csv(file, "python") ELSE first

missing_columns_first(columns) ==
    LET all == SelectSeq(REQUIRED_COLUMNS, LAMBDA col : col \notin columns)
    IN  IF all = <<>> THEN <<>> ELSE <<Head(all)>>

\* [col for col in REQUIRED_COLUMNS if col not in df.columns]
missing_columns(columns) ==
    SelectSeq(REQUIRED_COLUMNS, LAMBDA col : col \notin columns)

\* sep.join(items), as the sequence of its pieces
RECURSIVE JoinPieces(_, _)
JoinPieces(sep, items) ==
    IF items = <<>> THEN <<>>
    ELSE IF Len(items) = 1 THEN items
    ELSE <<Head(items), sep>> \o JoinPieces(sep, Tail(items))

MsgNotFound ==
    <<"workouts.csv file not found. Please ensure the file exists in the same directory.">>

MsgErrorReading(e) == <<"Error reading workouts.csv: ", e>>

MsgMissingColumns(missing) ==
    <<"workouts.csv is missing required columns: ">> \o JoinPieces(", ", missing)

\* load_workout_data up to the validation of the columns: the message
\* passed to st.error, whether the function returned there, and the frame
load_workout_data_read(file) ==
    LET read == read_with_retry(file)
        early(msg) == [st_error |-> msg, returned |-> TRUE, df |-> <<>>]
    IN  IF read.exc = "FileNotFoundError" THEN early(MsgNotFound)
        ELSE IF read.exc # "none" THEN early(MsgErrorReading(read.exc))
        ELSE LET missing == missing_columns(read.columns)
             IN  IF missing # <<>> THEN early(MsgMissingColumns(missing))
                 ELSE [st_error |-> <<>>, returned |-> FALSE, df |-> read.rows]

InitRead ==
    /\ pc = "source"
    /\ csv_file \in CsvFiles
    /\ st_error = <<>>
    /\ recommendation_history = <<>>
    /\ csv_rows = <<>>
    /\ df = <<>>
    /\ collaborative_model = <<>>
    /\ recommender = <<>>
    /\ request = <<>>
    /\ result = <<>>
    /\ NoCell
    /\ NoContext

\* lines 15-35: read, validate, and either return the empty frame or go on
\* with the frame read
ReadCsv ==
    /\ pc = "source"
    /\ LET out == load_workout_data_read(csv_file)
       IN  /\ st_error' = out.st_error
           /\ df' = out.df
           /\ csv_rows' = out.df
           /\ pc' = IF out.returned THEN "returned" ELSE "read"
    /\ UNCHANGED <<csv_file, recommendation_history, parseVars, contextVars, collaborative_model,
                   recommender, request, result>>

NextRead ==
    \/ ReadCsv
    \/ NextLoad

SpecRead == InitRead /\ [][NextRead]_vars

\* the column names in a message about missing columns
ReportedColumns(msg) ==
    [k \in 1..(Len(msg) \div 2) |-> msg[2 * k]]

Readable(file) ==
    \/ file.status = "ok"
    \/ file.status = "ParserError" /\ file.permissive = "ok"

\* C16: when workouts.csv lacks any of the five required columns,
\* load_workout_data reports exactly the missing column names and returns
\* an empty table without expansion, parsing or metric computation; when the
\* file is missing or cannot be read it also returns an empty table and
\* does not raise.
C16_MissingColumnsOrSourceGiveEmptyTable ==
    pc # "source" =>
        LET missing == RequiredColumnSet \ csv_file.columns
            reported == ReportedColumns(st_error)
        IN  /\ (Readable(csv_file) /\ missing # {}) =>
                  /\ pc = "returned"
                  /\ df = <<>>
                  /\ Len(st_error) = 2 * Cardinality(missing)
                  /\ {reported[k] : k \in DOMAIN reported} = missing
            /\ ~Readable(csv_file) =>
                  /\ pc = "returned"
                  /\ df = <<>>
                  /\ st_error # <<>>

\* C16 witness: a file read by the permissive parser after a ParserError,
\* with lines but without two of the required columns, has been reported
C16_Witness ==
    /\ pc = "returned"
    /\ csv_file.status = "ParserError"
    /\ csv_file.permissive = "ok"
    /\ csv_file.rows # <<>>
    /\ RequiredColumnSet \ csv_file.columns = {"Date", "RPE"}
    /\ st_error = <<"workouts.csv is missing required columns: ",
                    "Date", ", ", "RPE">>
    /\ df = <<>>

(***************************************************************************)
(* CompleteWorkoutRecommender (utils/complete_workout_recommender.py)      *)
(*                                                                         *)
(* Weights of the log are in units of 1/WScale; statistics that are means  *)
(* or products are fractions of pounds; the weight of a plan is a whole    *)
(* number of pounds.  RPE targets are in half points.  Of a plan the keys  *)
(* workout_type, estimated_duration, total_volume and exercises are held,  *)
(* and of an exercise of the plan the keys exercise, muscle_group, sets,   *)
(* reps, weight, rest_time and rpe_target.                                 *)
(***************************************************************************)
RECURSIVE Gcd(_, _)
Gcd(a, b) == IF b = 0 THEN a ELSE Gcd(b, a % b)

\* a fraction num/den with num >= 0 and den > 0 in lowest terms (the value
\* is the same; the numbers stay small)
FracReduce(a) ==
    LET g == Gcd(a.num, a.den)
    IN  [num |-> a.num \div g, den |-> a.den \div g]

FracMul(a, b) ==
    LET x == FracReduce(a)
        y == FracReduce(b)
        g == Gcd(x.num, y.den)
        h == Gcd(y.num, x.den)
    IN  [num |-> (x.num \div g) * (y.num \div h),
         den |-> (x.den \div h) * (y.den \div g)]

FracMin(a, b) == IF FracLess(b, a) THEN b ELSE a

FracMax(a, b) == IF FracLess(a, b) THEN b ELSE a

\* int(x) for x >= 0
FracFloor(a) == a.num \div a.den

S_Cardio == <<"C", "a", "r", "d", "i", "o">>

S_Core == <<"C", "o", "r", "e">>

\* the rows of an exercise: df[df['Exercise'] == exercise]; no row equals
\* a missing name
ExerciseData(frame, exercise) ==
    IF exercise = NoName THEN <<>>
    ELSE SelectSeq(frame, LAMBDA r : r.Exercise = exercise)

RECURSIVE FracSum(_)
FracSum(fs) ==
    IF fs = <<>> THEN Frac(0, 1)
    ELSE FracReduce(FracAdd(FracReduce(Head(fs)), FracSum(Tail(fs))))

\* the statistics build_exercise_database keeps for an exercise with rows
ExerciseStats(exercise_data) ==
    LET n == Len(exercise_data)
        reps_sum == SumSet([i \in DOMAIN exercise_data |-> exercise_data[i].Total_Reps],
                           DOMAIN exercise_data)
    IN  [avg_weight |->
            FracMul(FracSum([i \in DOMAIN exercise_data |-> exercise_data[i].Avg_Weight]),
                    Frac(1, n * WScale)),
         max_weight |->
            FracReduce(Frac(MaxOf({exercise_data[i].Max_Weight : i \in DOMAIN exercise_data}),
                            WScale)),
         avg_reps |-> FracReduce(Frac(reps_sum, n * n)),
         muscle_group |-> exercise_data[1].MuscleGroup,
         frequency |-> n,
         last_performed |-> MaxOf({exercise_data[i].Date : i \in DOMAIN exercise_data})]

\* CompleteWorkoutRecommender.build_exercise_database: the exercises in the
\* order of the dictionary and their statistics.  The empty frame has no
\* column 'Exercise' (KeyError); an exercise without rows makes
\* len(exercise_data) / exercise_data['Date'].nunique() the quotient 0 / 0
\* (ZeroDivisionError).
build_exercise_database(frame) ==
    IF frame = <<>> THEN [exc |-> "KeyError", keys |-> <<>>, stats |-> <<>>]
    ELSE LET keys == Unique(ExerciseColumn(frame))
         IN  IF \E k \in DOMAIN keys : ExerciseData(frame, keys[k]) = <<>>
             THEN [exc |-> "ZeroDivisionError", keys |-> <<>>, stats |-> <<>>]
             ELSE [exc |-> "none", keys |-> keys,
                   stats |-> [k \in DOMAIN keys |->
                                 ExerciseStats(ExerciseData(frame, keys[k]))]]

WorkoutTypes == {"balanced", "upper_body", "lower_body", "push", "pull", "cardio"}

\* the dictionary structures of _get_workout_structure
Structures(workout_type) ==
    CASE workout_type = "upper_body" ->
            [muscle_groups |-> <<S_Chest, S_Back, S_Shoulders, S_Arms>>,
             exercises_per_group |-> 2, total_exercises |-> 8,
             sets_per_exercise |-> 3, rest_time |-> 90]
      [] workout_type = "lower_body" ->
            [muscle_groups |-> <<S_Legs, S_Glutes, S_Hamstrings, S_Quads>>,
             exercises_per_group |-> 2, total_exercises |-> 8,
             sets_per_exercise |-> 3, rest_time |-> 120]
      [] workout_type = "push" ->
            [muscle_groups |-> <<S_Chest, S_Shoulders, S_Triceps>>,
             exercises_per_group |-> 2, total_exercises |-> 6,
             sets_per_exercise |-> 3, rest_time |-> 90]
      [] workout_type = "pull" ->
            [muscle_groups |-> <<S_Back, S_Biceps, S_RearDelts>>,
             exercises_per_group |-> 2, total_exercises |-> 6,
             sets_per_exercise |-> 3, rest_time |-> 90]
      [] workout_type = "cardio" ->
            [muscle_groups |-> <<S_Legs, S_Cardio>>,
             exercises_per_group |-> 1, total_exercises |-> 4,
             sets_per_exercise |-> 1, rest_time |-> 30]
      [] OTHER ->
            [muscle_groups |-> <<S_Chest, S_Back, S_Legs, S_Shoulders, S_Arms>>,
             exercises_per_group |-> 1, total_exercises |-> 5,
             sets_per_exercise |-> 3, rest_time |-> 90]

\* CompleteWorkoutRecommender._get_workout_structure
get_workout_structure(workout_type, duration_minutes) ==
    LET base_structure == Structures(workout_type)
    IN  IF duration_minutes < 45
        THEN [base_structure EXCEPT
                !.total_exercises = PyMax(3, base_structure.total_exercises - 2),
                !.sets_per_exercise = PyMax(2, base_structure.sets_per_exercise - 1)]
        ELSE IF duration_minutes > 90
        THEN [base_structure EXCEPT
                !.total_exercises = base_structure.total_exercises + 2,
                !.sets_per_exercise = base_structure.sets_per_exercise + 1]
        ELSE base_structure

\* list.sort(key=..., reverse=True): descending, equal keys keep their order
SortedDescending(items, KeyLess(_, _)) ==
    LET RECURSIVE Sorted(_)
        Sorted(s) ==
            IF s = <<>> THEN <<>>
            ELSE LET rest == Sorted(SubSeq(s, 1, Len(s) - 1))
                     x == s[Len(s)]
                     p == Cardinality({i \in DOMAIN rest : ~KeyLess(rest[i], x)})
                 IN  SubSeq(rest, 1, p) \o <<x>> \o SubSeq(rest, p + 1, Len(rest))
    IN  Sorted(items)

\* the picks of the target muscle groups, group after group
RECURSIVE SelectByGroups(_, _, _, _, _)
SelectByGroups(db, structure, t, groups, selected_exercises) ==
    IF groups = <<>> THEN selected_exercises
    ELSE LET stat(x) == db.stats[ListIndex(db.keys, x)]
             mine == SelectSeq(db.keys, LAMBDA x : stat(x).muscle_group = Head(groups))
             KeyLess(a, b) ==
                 \/ stat(a).frequency < stat(b).frequency
                 \/ /\ stat(a).frequency = stat(b).frequency
                    /\ -(t - stat(a).last_performed) < -(t - stat(b).last_performed)
             available_exercises == SortedDescending(mine, KeyLess)
             room == structure.total_exercises - Len(selected_exercises)
             take == PySlice(available_exercises,
                             IF structure.exercises_per_group < room
                             THEN structure.exercises_per_group
                             ELSE PyMax(room, 0))
         IN  SelectByGroups(db, structure, t, Tail(groups), selected_exercises \o take)

\* filling the slots with the remaining exercises as the database lists them
RECURSIVE FillRemainingFirst(_, _, _)
FillRemainingFirst(db, structure, selected_exercises) ==
    IF Len(selected_exercises) >= structure.total_exercises THEN selected_exercises
    ELSE LET remaining_exercises ==
                 SelectSeq(db.keys, LAMBDA x : ~InList(x, selected_exercises))
         IN  IF remaining_exercises = <<>> THEN selected_exercises
             ELSE FillRemainingFirst(db, structure,
                      Append(selected_exercises, remaining_exercises[1]))

\* the while loop that fills the remaining slots
RECURSIVE FillRemaining(_, _, _)
FillRemaining(db, structure, selected_exercises) ==
    IF Len(selected_exercises) >= structure.total_exercises THEN selected_exercises
    ELSE LET stat(x) == db.stats[ListIndex(db.keys, x)]
             remaining_exercises ==
                 SelectSeq(db.keys, LAMBDA x : ~InList(x, selected_exercises))
             KeyLess(a, b) == stat(a).frequency < stat(b).frequency
         IN  IF remaining_exercises = <<>> THEN selected_exercises
             ELSE FillRemaining(db, structure,
                      Append(selected_exercises,
                             SortedDescending(remaining_exercises, KeyLess)[1]))

\* CompleteWorkoutRecommender._select_exercises at time t
select_exercises(db, structure, t) ==
    FillRemaining(db, structure,
                  SelectByGroups(db, structure, t, structure.muscle_groups, <<>>))

\* CompleteWorkoutRecommender._get_intensity_multiplier, in hundredths
get_intensity_multiplier(context) ==
    IF context.recovery_status = "needs_rest" THEN 70
    ELSE IF context.recovery_status = "light_workout" THEN 85
    ELSE IF context.days_since_last > 3 THEN 110
    ELSE 100

\* CompleteWorkoutRecommender._calculate_sets
calculate_sets(stats, context) ==
    LET base_sets == IF stats.frequency > 10 THEN 4 ELSE 3
    IN  IF context.recovery_status = "needs_rest" THEN PyMax(2, base_sets - 1)
        ELSE IF context.recovery_status = "light_workout" THEN PyMax(2, base_sets)
        ELSE base_sets

S_squat == <<"s", "q", "u", "a", "t">>

S_deadlift == <<"d", "e", "a", "d", "l", "i", "f", "t">>

S_curl == <<"c", "u", "r", "l">>

S_extension == <<"e", "x", "t", "e", "n", "s", "i", "o", "n">>

\* CompleteWorkoutRecommender._calculate_reps
calculate_reps(stats, context) ==
    LET avg_reps == IF stats.avg_reps.num = 0 THEN Frac(10, 1) ELSE stats.avg_reps
        group == Lower(stats.muscle_group)
        between(lo, hi) == FracMax(Frac(lo, 1), FracMin(Frac(hi, 1), avg_reps))
        target_reps ==
            IF Contains(group, S_squat) \/ Contains(group, S_deadlift)
            THEN between(5, 8)
            ELSE IF Contains(group, S_curl) \/ Contains(group, S_extension)
            THEN between(8, 15)
            ELSE between(6, 12)
    IN  FracFloor(
            IF context.recovery_status = "needs_rest"
            THEN FracMin(Frac(15, 1), FracAdd(target_reps, Frac(2, 1)))
            ELSE IF context.recovery_status = "light_workout"
            THEN FracMin(Frac(12, 1), FracAdd(target_reps, Frac(1, 1)))
            ELSE target_reps)

\* round(x) of a float x >= 0 that is the result of products with 0.8, 0.7,
\* 0.85, 1.1 or 0.9: where the exact value is half-way between two integers
\* the float may lie on either side of it, or on it (then the even one)
RoundFloat(a) ==
    LET q == a.num \div a.den
        r == a.num % a.den
    IN  IF 2 * r < a.den THEN {q}
        ELSE IF 2 * r > a.den THEN {q + 1}
        ELSE {q, q + 1}

\* the rounded weight without the minimum of 5
calculate_weight_unfloored(stats, context, intensity_multiplier) ==
    LET max_w == stats.max_weight
        avg_w == IF stats.avg_weight.num = 0
                 THEN FracMul(max_w, Frac(7, 10))
                 ELSE stats.avg_weight
        target_weight ==
            FracMin(FracMul(FracMul(avg_w, Frac(8, 10)), Frac(intensity_multiplier, 100)),
                    FracMul(max_w, Frac(9, 10)))
    IN  {rounded * 5 : rounded \in RoundFloat(FracMul(target_weight, Frac(1, 5)))}

\* CompleteWorkoutRecommender._calculate_weight: the weights it may return
calculate_weight(stats, context, intensity_multiplier) ==
    LET max_w == stats.max_weight
        avg_w == IF stats.avg_weight.num = 0
                 THEN FracMul(max_w, Frac(7, 10))
                 ELSE stats.avg_weight
        base_weight == FracMul(avg_w, Frac(8, 10))
        target_weight ==
            FracMin(FracMul(base_weight, Frac(intensity_multiplier, 100)),
                    FracMul(max_w, Frac(9, 10)))
    IN  {PyMax(5, rounded * 5) : rounded \in RoundFloat(FracMul(target_weight, Frac(1, 5)))}

\* CompleteWorkoutRecommender._calculate_rest_time
calculate_rest_time(stats, context) ==
    LET group == Lower(stats.muscle_group)
        base_rest ==
            IF Contains(group, S_squat) \/ Contains(group, S_deadlift) THEN 120
            ELSE IF Contains(group, S_curl) \/ Contains(group, S_extension) THEN 60
            ELSE 90
    IN  IF context.recovery_status = "needs_rest" THEN base_rest + 30
        ELSE IF context.recovery_status = "light_workout" THEN base_rest + 15
        ELSE base_rest

\* CompleteWorkoutRecommender._calculate_rpe_target, in half points
calculate_rpe_target(context) ==
    IF context.recovery_status = "needs_rest" THEN 12
    ELSE IF context.recovery_status = "light_workout" THEN 14
    ELSE IF context.days_since_last > 3 THEN 16
    ELSE 15

\* CompleteWorkoutRecommender._generate_workout_details: the lists of
\* exercise details it may return
RECURSIVE generate_workout_details(_, _, _)
generate_workout_details(db, exercises, context) ==
    IF exercises = <<>> THEN {<<>>}
    ELSE LET exercise == Head(exercises)
             stats == db.stats[ListIndex(db.keys, exercise)]
             intensity_multiplier == get_intensity_multiplier(context)
         IN  {<<[exercise |-> exercise,
                 muscle_group |-> stats.muscle_group,
                 sets |-> calculate_sets(stats, context),
                 reps |-> calculate_reps(stats, context),
                 weight |-> weight,
                 rest_time |-> calculate_rest_time(stats, context),
                 rpe_target |-> calculate_rpe_target(context)]>> \o rest :
                weight \in calculate_weight(stats, context, intensity_multiplier),
                rest \in generate_workout_details(db, Tail(exercises), context)}

RECURSIVE SummaryLoopFirstOnly(_, _, _)
SummaryLoopFirstOnly(workout_details, total_volume_acc, total_duration) ==
    IF workout_details = <<>>
    THEN [volume |-> total_volume_acc, duration |-> total_duration \div 60]
    ELSE LET exercise == Head(workout_details)
         IN  SummaryLoopFirstOnly(<<>>,
                 total_volume_acc + exercise.sets * exercise.reps * exercise.weight,
                 total_duration + exercise.sets * exercise.reps * 3
                                + exercise.sets * exercise.rest_time)

\* the loop of _calculate_workout_summary
RECURSIVE SummaryLoop(_, _, _)
SummaryLoop(workout_details, total_volume_acc, total_duration) ==
    IF workout_details = <<>>
    THEN [volume |-> total_volume_acc, duration |-> total_duration \div 60]
    ELSE LET exercise == Head(workout_details)
         IN  SummaryLoop(Tail(workout_details),
                 total_volume_acc + exercise.sets * exercise.reps * exercise.weight,
                 total_duration + exercise.sets * exercise.reps * 3
                                + exercise.sets * exercise.rest_time)

\* CompleteWorkoutRecommender._calculate_workout_summary
calculate_workout_summary(workout_details) ==
    LET s == SummaryLoop(workout_details, 0, 0)
    IN  [volume |-> s.volume, duration |-> s.duration,
         exercises |-> Len(workout_details)]

\* CompleteWorkoutRecommender.recommend_complete_workout at time t: the
\* plans it may return, or the exception that leaves it
recommend_complete_workout(frame, workout_type, duration_minutes, t) ==
    LET db == build_exercise_database(frame)
    IN  IF db.exc # "none" THEN {[raised |-> db.exc]}
        ELSE LET workout_structure == get_workout_structure(workout_type, duration_minutes)
                 context == get_recent_context(frame, t)
                 selected_exercises == select_exercises(db, workout_structure, t)
             IN  {[workout_type |-> workout_type,
                   estimated_duration |-> calculate_workout_summary(complete_workout).duration,
                   total_volume |-> calculate_workout_summary(complete_workout).volume,
                   exercises |-> complete_workout] :
                     complete_workout \in
                         generate_workout_details(db, selected_exercises, context)}

(***************************************************************************)
(* The complete-workout section of the recommendations page: the loaded    *)
(* log is handed to recommend_complete_workout with the type and duration  *)
(* the user selected.                                                      *)
(***************************************************************************)
\* the largest number of entries in the log handed to the planner
MaxPlanRows == 3

\* the day the plans are asked on
PlannerNow == 6

Str3x8x155 == <<"3", "x", "8", "x", "1", "5", "5">>

\* the entries of workouts.csv
PlannerEntries ==
    { [Date |-> 1, Exercise |-> "Bench Press", SetsRepsWeight |-> Str3x10x135,
       RPE |-> 18, MuscleGroup |-> S_Chest],
      [Date |-> 5, Exercise |-> "Bench Press", SetsRepsWeight |-> Str3x8x155,
       RPE |-> 18, MuscleGroup |-> S_Chest],
      [Date |-> 1, Exercise |-> "Squat", SetsRepsWeight |-> Str3x10x135,
       RPE |-> 16, MuscleGroup |-> S_Legs],
      [Date |-> 5, Exercise |-> "Squat", SetsRepsWeight |-> Str1x5x200,
       RPE |-> 18, MuscleGroup |-> S_Legs],
      [Date |-> 5, Exercise |-> "Barbell Row", SetsRepsWeight |-> Str3x10x135,
       RPE |-> 16, MuscleGroup |-> S_Back],
      [Date |-> 1, Exercise |-> "Plank", SetsRepsWeight |-> NaN,
       RPE |-> 16, MuscleGroup |-> S_Core],
      [Date |-> 5, Exercise |-> NoName, SetsRepsWeight |-> Str3x10x135,
       RPE |-> 16, MuscleGroup |-> S_Back] }

\* load_workout_data on a file with the required columns
Loaded(rows) ==
    LET grouped == add_grouped_muscle_groups(expand_compound_muscle_groups(rows))
    IN  [i \in DOMAIN grouped |-> MetricColumns(grouped[i])]

InitPlanner ==
    /\ pc = "idle"
    /\ csv_rows \in UNION {[1..n -> PlannerEntries] : n \in 0..MaxPlanRows}
    /\ df = Loaded(csv_rows)
    /\ now = PlannerNow
    /\ recent_context = <<>>
    /\ context_features = <<>>
    /\ NoService
    /\ NoCell

\* the durations of the slider that fall below, within and above the
\* range of the base template
Durations == {30, 60, 120}

\* complete_recommender.recommend_complete_workout(df, workout_type, duration)
RecommendCompleteWorkout ==
    /\ pc = "idle"
    /\ \E workout_type \in WorkoutTypes \cup {"other"}, duration_minutes \in Durations :
          /\ request' = [op |-> "recommend_complete_workout",
                         workout_type |-> workout_type,
                         duration_minutes |-> duration_minutes]
          /\ result' \in recommend_complete_workout(df, workout_type,
                                                    duration_minutes, now)
    /\ pc' = "returned"
    /\ UNCHANGED <<frameVars, parseVars, contextVars, loadVars, collaborative_model,
                   recommender>>

NextPlanner ==
    \/ RecommendCompleteWorkout
    \/ Rendered

SpecPlanner == InitPlanner /\ [][NextPlanner]_vars

(***************************************************************************)
(* Properties of the calls of the core                                     *)
(***************************************************************************)
PerRequestCalls ==
    {"get_recommendations", "get_model_performance", "recommend_complete_workout"}

\* C15: a call of get_recommendations, get_model_performance or
\* recommend_complete_workout never raises: for every log and every argument
\* it returns a complete result or an object with an error key.
C15_CallsReturnResultOrError ==
    (pc = "returned" /\ request.op \in PerRequestCalls) =>
        /\ "raised" \notin DOMAIN result
        /\ \/ "error" \in DOMAIN result
           \/ {"type", "recommendations"} \subseteq DOMAIN result
           \/ {"total_workouts", "prediction_accuracy"} \subseteq DOMAIN result
           \/ {"total_volume", "exercises"} \subseteq DOMAIN result

\* sets * reps * weight summed over a list of exercises of a plan
PlanVolume(exercises) ==
    SumSet([i \in DOMAIN exercises |->
               exercises[i].sets * exercises[i].reps * exercises[i].weight],
           DOMAIN exercises)

\* C18: the total_volume of the plan returned by recommend_complete_workout
\* is the sum of sets * reps * weight over the plan's own exercises, for
\* every log, workout type and duration (0 when the list is empty).
C18_TotalVolumeIsSumOverExercises ==
    (/\ pc = "returned"
     /\ request.op = "recommend_complete_workout"
     /\ "raised" \notin DOMAIN result) =>
        /\ result.total_volume = PlanVolume(result.exercises)
        /\ (result.exercises = <<>> => result.total_volume = 0)

\* C18 witness: a plan of three exercises with different volumes
C18_Witness ==
    /\ pc = "returned"
    /\ request.op = "recommend_complete_workout"
    /\ "raised" \notin DOMAIN result
    /\ Len(result.exercises) = 3
    /\ \A i, j \in DOMAIN result.exercises :
          i # j => result.exercises[i].sets * result.exercises[i].reps
                       * result.exercises[i].weight
                   # result.exercises[j].sets * result.exercises[j].reps
                       * result.exercises[j].weight
    /\ result.total_volume > 0

(***************************************************************************)
(* Properties of the parser on cells of several segments                   *)
(***************************************************************************)
RECURSIVE ConcatParsed(_)
ConcatParsed(segs) ==
    IF segs = <<>> THEN <<>>
    ELSE parse_sets_reps_weight(Head(segs)).data \o ConcatParsed(Tail(segs))

\* C21: a malformed segment (sets or reps that are no integers, or a segment
\* that neither holds an 'x' nor "failure") yields no record and leaves the
\* other segments alone: the records of a cell are the records its segments
\* yield when parsed alone, in the order of the segments, at most one for
\* each segment, and the parser does not raise.
C21_SegmentsParseIndependently ==
    (pc # "input" /\ sets_string # NaN) =>
        LET segs == Split(sets_string, ";")
        IN  /\ pc # "raised"
            /\ sets_data = ConcatParsed(segs)
            /\ \A i \in DOMAIN segs :
                  /\ parse_sets_reps_weight(segs[i]).exc = "none"
                  /\ Len(parse_sets_reps_weight(segs[i]).data) <= 1
                  /\ (~WellFormed(segs[i]) =>
                         parse_sets_reps_weight(segs[i]).data = <<>>)

\* C21 witness: a cell whose first segment has sets that are no integer and
\* whose last segment is well-formed has been parsed to one record
C21_Witness ==
    /\ pc = "parsed"
    /\ sets_string # NaN
    /\ LET segs == Split(sets_string, ";")
       IN  /\ Len(segs) >= 2
           /\ Contains(segs[1], <<"x">>)
           /\ ~WellFormed(segs[1])
           /\ WellFormed(segs[Len(segs)])
           /\ Len(sets_data) = 1

(***************************************************************************)
(* Properties of the hybrid combination                                    *)
(***************************************************************************)
\* weight * (1 - rank / listLength) of an exercise in a list, rank from 0,
\* with the weight in tenths; 0 when the list does not hold it
RankShare(tenths, list, ex) ==
    IF \E i \in DOMAIN list : list[i] = ex
    THEN LET rank == (CHOOSE i \in DOMAIN list : list[i] = ex) - 1
         IN  Frac(tenths * (Len(list) - rank), 10 * Len(list))
    ELSE Frac(0, 1)

UnadjustedScore(collab, content, ex) ==
    FracAdd(RankShare(6, collab, ex), RankShare(4, content, ex))

\* the factor of an exercise under a recovery status, in tenths
RecoveryFactor(status, ex) ==
    IF status = "needs_rest" /\ ex \in {"Calf Raises", "Lateral Raises", "Facepulls"}
    THEN 15
    ELSE IF status = "light_workout" /\ ex \in {"Arnold Press", "Cable Rows", "Leg Press"}
    THEN 13
    ELSE 10

AdjustedScore(collab, content, status, ex) ==
    FracMul(UnadjustedScore(collab, content, ex), Frac(RecoveryFactor(status, ex), 10))

\* what is said of the list recs returned for the lists collab and content
HybridRule(collab, content, status, k, recs) ==
    /\ Len(collab) <= 2 * k
    /\ Len(content) <= 2 * k
    /\ Len(recs) <= k
    /\ \A i, j \in DOMAIN recs : i # j => recs[i] # recs[j]
    /\ \A i \in DOMAIN recs : InList(recs[i], collab) \/ InList(recs[i], content)
    /\ \A i, j \in DOMAIN recs :
          i < j => ~FracLess(AdjustedScore(collab, content, status, recs[i]),
                             AdjustedScore(collab, content, status, recs[j]))
    /\ (status = "ready" =>
          \A i, j \in DOMAIN recs :
             i < j => ~FracLess(UnadjustedScore(collab, content, recs[i]),
                                UnadjustedScore(collab, content, recs[j])))

HybridAnswered ==
    /\ pc = "returned"
    /\ request.op = "get_recommendations"
    /\ request.recommendation_type = "hybrid"
    /\ "recommendations" \in DOMAIN result

MaxAwareRows == 3

\* one year of back work, one light set for the chest and one for the legs,
\* a leg press session and a walk
AwareEntries ==
    {[Exercise |-> "Barbell Row", Date |-> RecentDay, RPE |-> 16,
      MuscleGroup |-> "Back", Total_Volume |-> 100000],
     [Exercise |-> "Bench Press", Date |-> RecentDay, RPE |-> 16,
      MuscleGroup |-> "Chest", Total_Volume |-> 40],
     [Exercise |-> "Squat", Date |-> RecentDay, RPE |-> 16,
      MuscleGroup |-> "Legs", Total_Volume |-> 30],
     [Exercise |-> "Leg Press", Date |-> RecentDay, RPE |-> 16,
      MuscleGroup |-> "Legs", Total_Volume |-> 1000],
     [Exercise |-> "Walking", Date |-> RecentDay, RPE |-> 16,
      MuscleGroup |-> "Recovery", Total_Volume |-> 0]}

AwareLogs == UNION {[1..n -> AwareEntries] : n \in 0..MaxAwareRows}

AwareContexts ==
    [recovery_status : {"needs_rest", "light_workout", "ready"},
     last_workout_muscle_group : {"None", "Back", "Legs", "Recovery"}]

InitAware ==
    /\ pc = "idle"
    /\ df \in AwareLogs
    /\ csv_rows = df
    /\ recommender = <<>>
    /\ request = <<>>
    /\ result = <<>>
    /\ csv_file = <<>>
    /\ st_error = <<>>
    /\ recommendation_history = <<>>
    /\ collaborative_model = <<>>
    /\ NoContext
    /\ NoCell

\* self._get_context_aware_recommendations(df, context_features, n_recommendations)
GetContextAwareRecommendations ==
    /\ pc = "idle"
    /\ \E context \in AwareContexts, n_recommendations \in 1..4 :
          /\ request' = [op |-> "get_context_aware_recommendations",
                         context |-> context,
                         n_recommendations |-> n_recommendations]
          /\ result' = Recommendations("Context-Aware",
                           get_context_aware_recommendations(df, context,
                                                             n_recommendations))
    /\ pc' = "returned"
    /\ UNCHANGED <<frameVars, parseVars, contextVars, loadVars, collaborative_model,
                   recommender>>

NextAware == GetContextAwareRecommendations \/ Rendered

SpecAware == InitAware /\ [][NextAware]_vars

AwareAnswered ==
    /\ pc = "returned"
    /\ request.op = "get_context_aware_recommendations"

\* the groups other than Recovery with the least volume share, "None" when
\* there is no volume
WeakestGroups(frame) ==
    LET groups == {frame[i].MuscleGroup : i \in DOMAIN frame} \ {"Recovery"}
        total == SumSet([i \in DOMAIN frame |-> frame[i].Total_Volume], DOMAIN frame)
    IN  IF total = 0 \/ groups = {} THEN {"None"}
        ELSE {g \in groups :
                \A h \in groups : MuscleVolume(frame, g) <= MuscleVolume(frame, h)}

\* the logged exercises of a muscle group, in the order of the log
GroupExercises(frame, g) ==
    Unique(ExerciseColumn(SelectSeq(frame, LAMBDA r : r.MuscleGroup = g)))

\* the lists of at most 3 exercises of the groups opposite to group g
OppositePicks(frame, g) ==
    LET groups == get_opposite_muscle_groups(g)
        pool == {frame[i].Exercise : i \in
                    {i \in DOMAIN frame :
                        \E j \in DOMAIN groups : frame[i].MuscleGroup = groups[j]}}
    IN  IF g \in {"None", "Recovery"} THEN {<<>>}
        ELSE UNION {[1..n -> pool] : n \in 0..3}

\* C23, under needs_rest: the first k of the fixed list, no logged exercise
C23_RestList ==
    (AwareAnswered /\ request.context.recovery_status = "needs_rest") =>
        /\ result.recommendations =
              PySlice(<<"Rest Day", "Light Stretching", "Walking">>,
                      request.n_recommendations)
        /\ \A i \in DOMAIN result.recommendations :
              \A j \in DOMAIN df : df[j].Exercise # result.recommendations[i]

\* C23, under light_workout: the first k of the fixed light list
C23_LightList ==
    (AwareAnswered /\ request.context.recovery_status = "light_workout") =>
        result.recommendations =
            PySlice(<<"Calf Raises", "Lateral Raises", "Facepulls", "Light Cardio">>,
                    request.n_recommendations)

\* C23, under ready: the list is the exercises of the weakest muscle group
\* (the group other than Recovery with the least volume share, none when
\* the total volume is 0) followed by at most 3 exercises of the groups
\* opposite to the last workout's group, without duplicates, cut to k
C23_ReadyList ==
    (AwareAnswered /\ request.context.recovery_status = "ready") =>
        \E weakest \in WeakestGroups(df) :
           \E extra \in OppositePicks(df, request.context.last_workout_muscle_group) :
              result.recommendations =
                  PySlice(Unique((IF weakest = "None" THEN <<>>
                                  ELSE GroupExercises(df, weakest)) \o extra),
                          request.n_recommendations)

\* C23: the context-aware strategy returns a list without duplicates of at
\* most k items: under needs_rest the first k of (Rest Day, Light Stretching,
\* Walking), none of them a logged exercise; under light_workout the first k
\* of the fixed light list; under ready the exercises of the weakest muscle
\* group (the one other than Recovery with the least volume share, none
\* when the total volume is 0) followed by at most 3 exercises of the groups
\* opposite to the last workout's group.
C23_ContextAwareList ==
    /\ AwareAnswered =>
          /\ Len(result.recommendations) <= request.n_recommendations
          /\ \A i, j \in DOMAIN result.recommendations :
                i # j => result.recommendations[i] # result.recommendations[j]
    /\ C23_RestList
    /\ C23_LightList
    /\ C23_ReadyList

(***************************************************************************)
(* WorkoutSequenceModel with its transition matrix (utils/ml_models.py)    *)
(*                                                                         *)
(* A fitted model is the record of self.exercises (a list) and             *)
(* self.transition_matrix.  An entry of the matrix is count / (row sum +   *)
(* 1e-8); it is kept as the fraction count / row sum, and it is 0 exactly  *)
(* when the count is 0.                                                    *)
(***************************************************************************)
RECURSIVE FlattenLists(_)
FlattenLists(lists) ==
    IF lists = <<>> THEN <<>> ELSE Head(lists) \o FlattenLists(Tail(lists))

\* WorkoutSequenceModel._create_sequences: the windows of sequence_length
\* successive workout days, each day the list of its exercises (a day's
\* exercises are taken in the order of the log; nothing below depends on
\* the order within a day)
create_sequences(frame) ==
    LET dates == DistinctDates(frame)
        day(k) == CHOOSE d \in dates : Cardinality({e \in dates : e <= d}) = k
        daily_workouts ==
            [k \in 1..Cardinality(dates) |->
                ExerciseColumn(SelectSeq(frame, LAMBDA r : r.Date = day(k)))]
    IN  [i \in 1..(Len(daily_workouts) - SequenceLength + 1) |->
            SubSeq(daily_workouts, i, i + SequenceLength - 1)]

\* counting as if each exercise led to the next one of the same day
TransitionPairsSuccessive(sequences) ==
    LET days == FlattenLists(sequences)
        pairs(day_workouts) ==
            [i \in 1..(Len(day_workouts) - 1) |->
                <<day_workouts[i], day_workouts[i + 1]>>]
    IN  FlattenLists([k \in DOMAIN days |-> pairs(days[k])])

\* the cells that "Count transitions" increments, one per logged exercise
\* of each day of each sequence:
\* transition_matrix[exercise_idx][exercise_idx] += 1
TransitionPairs(sequences) ==
    LET logged == FlattenLists(FlattenLists(sequences))
    IN  [k \in DOMAIN logged |-> <<logged[k], logged[k]>>]

\* WorkoutSequenceModel._build_transition_matrix; list(set) may come in any
\* order
build_transition_matrix(sequences) ==
    LET logged == FlattenLists(FlattenLists(sequences))
        all_exercises == {logged[k] : k \in DOMAIN logged}
        cells == TransitionPairs(sequences)
        count(a, b) == Cardinality({k \in DOMAIN cells : cells[k] = <<a, b>>})
        row_sum(a) == Cardinality({k \in DOMAIN cells : cells[k][1] = a})
    IN  {[exercises |-> exercises,
          transition_matrix |->
              [i \in DOMAIN exercises |->
                  [j \in DOMAIN exercises |->
                      IF count(exercises[i], exercises[j]) = 0 THEN Frac(0, 1)
                      ELSE Frac(count(exercises[i], exercises[j]),
                                row_sum(exercises[i]))]]] :
            exercises \in Orders(all_exercises)}

\* the probability recommend_next computes for a candidate
NextProbability(model, current_sequence, exercise) ==
    LET known == SelectSeq(current_sequence, LAMBDA e : InList(e, model.exercises))
        terms == [k \in DOMAIN known |->
                     model.transition_matrix[ListIndex(model.exercises, known[k])]
                                            [ListIndex(model.exercises, exercise)]]
    IN  FracMul(FracSum(terms), Frac(1, Len(current_sequence)))

\* WorkoutSequenceModel.recommend_next; sorted() is stable, also with
\* reverse=True
recommend_next(model, current_sequence, n_recommendations) ==
    IF current_sequence = <<>> THEN PySlice(model.exercises, n_recommendations)
    ELSE LET candidates == SelectSeq(model.exercises,
                               LAMBDA e : ~InList(e, current_sequence))
             prob(e) == NextProbability(model, current_sequence, e)
             before(a, b) ==
                 \/ FracLess(prob(b), prob(a))
                 \/ /\ FracEq(prob(a), prob(b))
                    /\ ListIndex(candidates, a) < ListIndex(candidates, b)
             sorted_exercises ==
                 CHOOSE s \in Orders({candidates[i] : i \in DOMAIN candidates}) :
                    \A i, j \in DOMAIN s : i < j => before(s[i], s[j])
         IN  PySlice(sorted_exercises, n_recommendations)

MaxDays == 5

\* what is logged on one day
DayWorkouts ==
    {<<"Squat">>, <<"Bench Press", "Squat">>, <<"Deadlift", "Bench Press", "Deadlift">>}

\* the log of the given days, day k dated k
SequenceLog(days) ==
    FlattenLists([k \in DOMAIN days |->
        [i \in DOMAIN days[k] |->
            [Exercise |-> days[k][i], Date |-> k, RPE |-> 16,
             MuscleGroup |-> "Legs", Total_Volume |-> 1000]]])

SequenceLogs ==
    {SequenceLog(days) :
        days \in UNION {[1..n -> DayWorkouts] : n \in {1} \cup (SequenceLength - 1)..MaxDays}}

CurrentSequences ==
    {<<>>, <<"Squat">>, <<"Bench Press", "Squat">>, <<"Deadlift", "Leg Press">>}

\* WorkoutSequenceModel.__init__: no exercises attribute before fit
WorkoutSequenceModel == [transition_matrix |-> "None"]

InitSequence ==
    /\ pc = "idle"
    /\ df \in SequenceLogs
    /\ csv_rows = df
    /\ recommender = [sequence_model |-> WorkoutSequenceModel]
    /\ request = <<>>
    /\ result = <<>>
    /\ csv_file = <<>>
    /\ st_error = <<>>
    /\ recommendation_history = <<>>
    /\ collaborative_model = <<>>
    /\ NoContext
    /\ NoCell

\* self.sequence_model.fit(df)
SequenceFit ==
    /\ pc = "idle"
    /\ "exercises" \notin DOMAIN recommender.sequence_model
    /\ \E model \in build_transition_matrix(create_sequences(df)) :
          recommender' = [sequence_model |-> model]
    /\ request' = [op |-> "fit"]
    /\ result' = <<>>
    /\ pc' = "returned"
    /\ UNCHANGED <<frameVars, parseVars, contextVars, loadVars, collaborative_model>>

\* self.sequence_model.recommend_next(current_sequence, n_recommendations)
RecommendNext ==
    /\ pc = "idle"
    /\ "exercises" \in DOMAIN recommender.sequence_model
    /\ \E current_sequence \in CurrentSequences, n_recommendations \in 1..MaxK :
          /\ request' = [op |-> "recommend_next",
                         current_sequence |-> current_sequence,
                         n_recommendations |-> n_recommendations]
          /\ result' = recommend_next(recommender.sequence_model, current_sequence,
                                      n_recommendations)
    /\ pc' = "returned"
    /\ UNCHANGED <<frameVars, parseVars, contextVars, loadVars, collaborative_model,
                   recommender>>

NextSequence == SequenceFit \/ RecommendNext \/ Rendered

SpecSequence == InitSequence /\ [][NextSequence]_vars

SequenceFitted == "exercises" \in DOMAIN recommender.sequence_model

NextAnswered ==
    /\ pc = "returned"
    /\ request.op = "recommend_next"
    /\ request.current_sequence # <<>>

SliderDurations == 30..120

InitStructure ==
    /\ pc = "idle"
    /\ NoFrame
    /\ NoContext
    /\ NoService
    /\ NoCell

\* self._get_workout_structure(workout_type, duration_minutes)
GetWorkoutStructure ==
    /\ pc = "idle"
    /\ \E workout_type \in WorkoutTypes \cup {"other"},
          duration_minutes \in SliderDurations :
          /\ request' = [op |-> "get_workout_structure",
                         workout_type |-> workout_type,
                         duration_minutes |-> duration_minutes]
          /\ result' = get_workout_structure(workout_type, duration_minutes)
    /\ pc' = "returned"
    /\ UNCHANGED <<frameVars, parseVars, contextVars, loadVars, collaborative_model,
                   recommender>>

NextStructure == GetWorkoutStructure \/ Rendered

SpecStructure == InitStructure /\ [][NextStructure]_vars

\* the template of a workout type as the dictionary is written
BaseTemplate(workout_type) ==
    Structures(IF workout_type \in WorkoutTypes THEN workout_type ELSE "balanced")

\* C25: for each of the six workout types (an unknown type is balanced)
\* _get_workout_structure with a duration below 45 takes up to 2 exercises
\* and 1 set off the base template, not below 3 exercises and 2 sets, and
\* so never gives more exercises or more sets per exercise than the base
\* template; above 90 it adds exactly 2 exercises and 1 set; from 45 to 90
\* it returns the base template; whatever was asked before, the template a
\* call starts from is the written one.
C25_DurationAdjustsTemplate ==
    (pc = "returned" /\ request.op = "get_workout_structure") =>
        LET base == BaseTemplate(request.workout_type)
            d == request.duration_minutes
        IN  /\ d < 45 =>
                /\ result.total_exercises = PyMax(3, base.total_exercises - 2)
                /\ result.sets_per_exercise = PyMax(2, base.sets_per_exercise - 1)
                /\ result.total_exercises <= base.total_exercises
                /\ result.sets_per_exercise <= base.sets_per_exercise
            /\ d > 90 =>
                /\ result.total_exercises = base.total_exercises + 2
                /\ result.sets_per_exercise = base.sets_per_exercise + 1
            /\ (45 <= d /\ d <= 90) => result = base
            /\ result.muscle_groups = base.muscle_groups
            /\ result.exercises_per_group = base.exercises_per_group
            /\ result.rest_time = base.rest_time

(***************************************************************************)
(* CompleteWorkoutRecommender._select_exercises on its own, on logs with   *)
(* more exercises than a short workout has slots                           *)
(***************************************************************************)
MaxSelectRows == 4

SelectEntries ==
    { [Date |-> 1, Exercise |-> "Bench Press", SetsRepsWeight |-> Str3x10x135,
       RPE |-> 16, MuscleGroup |-> S_Chest],
      [Date |-> 5, Exercise |-> "Bench Press", SetsRepsWeight |-> Str3x10x135,
       RPE |-> 16, MuscleGroup |-> S_Chest],
      [Date |-> 3, Exercise |-> "Incline Press", SetsRepsWeight |-> Str3x10x135,
       RPE |-> 16, MuscleGroup |-> S_Chest],
      [Date |-> 5, Exercise |-> "Squat", SetsRepsWeight |-> Str1x5x200,
       RPE |-> 16, MuscleGroup |-> S_Legs],
      [Date |-> 2, Exercise |-> "Barbell Row", SetsRepsWeight |-> Str3x10x135,
       RPE |-> 16, MuscleGroup |-> S_Back] }

InitSelect ==
    /\ pc = "idle"
    /\ csv_rows \in UNION {[1..n -> SelectEntries] : n \in 1..MaxSelectRows}
    /\ df = Loaded(csv_rows)
    /\ now = PlannerNow
    /\ recent_context = <<>>
    /\ context_features = <<>>
    /\ NoService
    /\ NoCell

\* self.build_exercise_database(df), then
\* self._select_exercises(workout_structure, recent_context)
SelectExercises ==
    /\ pc = "idle"
    /\ \E workout_type \in WorkoutTypes, duration_minutes \in {30, 60} :
          LET structure == get_workout_structure(workout_type, duration_minutes)
          IN  /\ request' = [op |-> "select_exercises", structure |-> structure]
              /\ result' = select_exercises(build_exercise_database(df), structure, now)
    /\ pc' = "returned"
    /\ UNCHANGED <<frameVars, parseVars, contextVars, loadVars, collaborative_model,
                   recommender>>

NextSelect == SelectExercises \/ Rendered

SpecSelect == InitSelect /\ [][NextSelect]_vars

Selected == pc = "returned" /\ request.op = "select_exercises"

\* the statistics of a logged exercise
StatOf(db, x) == db.stats[ListIndex(db.keys, x)]

\* a comes before b in descending (frequency, recency) order
Outranks(db, a, b) ==
    \/ StatOf(db, a).frequency > StatOf(db, b).frequency
    \/ /\ StatOf(db, a).frequency = StatOf(db, b).frequency
       /\ StatOf(db, a).last_performed > StatOf(db, b).last_performed

\* the first n picks are those of the target muscle groups: group after
\* group, at most exercises_per_group each, the best of the group in
\* descending (frequency, recency) order, the whole quota of every group
\* unless the plan is full
GroupPicks(db, selected, structure, n) ==
    LET targets == structure.muscle_groups
        logged == {df[i].Exercise : i \in DOMAIN df}
        group(x) == StatOf(db, x).muscle_group
        picks(g) == {i \in 1..n : group(selected[i]) = g}
        available(g) == {x \in logged : group(x) = g}
        quota(g) == IF structure.exercises_per_group < Cardinality(available(g))
                    THEN structure.exercises_per_group
                    ELSE Cardinality(available(g))
    IN  /\ \A i \in 1..n : InList(group(selected[i]), targets)
        /\ \A i, j \in 1..n :
              i < j => ListIndex(targets, group(selected[i]))
                          <= ListIndex(targets, group(selected[j]))
        /\ \A k \in DOMAIN targets :
              /\ Cardinality(picks(targets[k])) <= structure.exercises_per_group
              /\ n < structure.total_exercises =>
                    Cardinality(picks(targets[k])) = quota(targets[k])
        /\ \A i, j \in 1..n :
              (i < j /\ group(selected[i]) = group(selected[j]))
                  => ~Outranks(db, selected[j], selected[i])
        /\ \A i \in 1..n :
              \A x \in available(group(selected[i])) :
                  (\A j \in 1..n : selected[j] # x) => ~Outranks(db, x, selected[i])

\* the picks after the first n are each the most frequent exercise not yet
\* selected
FillPicks(db, selected, n) ==
    \A j \in (n + 1)..Len(selected) :
        \A i \in DOMAIN df :
            (\A h \in 1..(j - 1) : selected[h] # df[i].Exercise)
                => StatOf(db, df[i].Exercise).frequency <= StatOf(db, selected[j]).frequency

\* C26: the list chosen by _select_exercises has no duplicates and exactly
\* min(total_exercises, number of distinct logged exercises) entries; each
\* target muscle group gives at most exercises_per_group picks, in
\* descending (frequency, recency) order, and the remaining slots are
\* filled with the most frequent exercises not yet selected until the count
\* is met or there is none left.
C26_SelectionFillsThePlan ==
    Selected =>
        LET structure == request.structure
            db == build_exercise_database(df)
            distinct == Cardinality({df[i].Exercise : i \in DOMAIN df})
        IN  /\ \A i, j \in DOMAIN result : i # j => result[i] # result[j]
            /\ Len(result) = IF structure.total_exercises < distinct
                             THEN structure.total_exercises ELSE distinct
            /\ \E n \in 0..Len(result) :
                  /\ GroupPicks(db, result, structure, n)
                  /\ FillPicks(db, result, n)

\* C26 witness: a log with more exercises than the plan has slots; the
\* plan holds a pick of a target muscle group and slots filled with
\* exercises of no target group
C26_Witness ==
    /\ Selected
    /\ Len(result) = request.structure.total_exercises
    /\ Cardinality({df[i].Exercise : i \in DOMAIN df}) > Len(result)
    /\ LET db == build_exercise_database(df)
           targets == request.structure.muscle_groups
       IN  /\ InList(StatOf(db, result[1]).muscle_group, targets)
           /\ \E i \in DOMAIN result : ~InList(StatOf(db, result[i]).muscle_group, targets)

(***************************************************************************)
(* Properties of the exercises of a generated plan                         *)
(***************************************************************************)
PlanReturned ==
    /\ pc = "returned"
    /\ request.op = "recommend_complete_workout"
    /\ "raised" \notin DOMAIN result

\* the logged exercises whose name contains squat or deadlift
SquatOrDeadliftNamed == {"Squat"}

\* the logged exercises whose name contains curl or extension
CurlOrExtensionNamed == {}

\* the range of reps of an exercise under ready, by its name
RepsRange(exercise) ==
    IF exercise \in SquatOrDeadliftNamed THEN 5..8
    ELSE IF exercise \in CurlOrExtensionNamed THEN 8..15
    ELSE 6..12

\* the reps prescribed under a recovery status for the reps under ready
RepsUnder(status, reps) ==
    IF status = "needs_rest" THEN (IF reps + 2 < 15 THEN reps + 2 ELSE 15)
    ELSE IF status = "light_workout" THEN (IF reps + 1 < 12 THEN reps + 1 ELSE 12)
    ELSE reps

\* C27: in a generated plan the reps of an exercise follow the type its
\* name gives: under ready within 5..8 when the name contains squat or
\* deadlift, within 8..15 when it contains curl or extension, within 6..12
\* otherwise; under needs_rest that value plus 2, at most 15; under
\* light_workout plus 1, at most 12.
C27_RepsFollowTheExerciseName ==
    PlanReturned =>
        \A i \in DOMAIN result.exercises :
            \E reps \in RepsRange(result.exercises[i].exercise) :
                result.exercises[i].reps =
                    RepsUnder(get_recent_context(df, now).recovery_status, reps)

\* the integers nearest to a fraction a >= 0 (two of them when a is
\* half-way)
NearestIntegers(a) ==
    {r \in {a.num \div a.den, a.num \div a.den + 1} :
        /\ 2 * (a.num - r * a.den) <= a.den
        /\ 2 * (r * a.den - a.num) <= a.den}

\* the intensity multiplier of a context, in hundredths
MultiplierOf(context) ==
    IF context.recovery_status = "needs_rest" THEN 70
    ELSE IF context.recovery_status = "light_workout" THEN 85
    ELSE IF context.days_since_last > 3 THEN 110
    ELSE 100

\* max(5, 5 * round(min(0.8 * avg * m, 0.9 * maxW) / 5)) for the statistics
\* of an exercise
PrescribedWeights(stats, context) ==
    LET maxW == stats.max_weight
        avg == IF stats.avg_weight.num = 0 THEN FracMul(Frac(7, 10), maxW)
               ELSE stats.avg_weight
        target == FracMin(FracMul(FracMul(Frac(8, 10), avg),
                                  Frac(MultiplierOf(context), 100)),
                          FracMul(Frac(9, 10), maxW))
    IN  {PyMax(5, 5 * r) : r \in NearestIntegers(FracMul(target, Frac(1, 5)))}

\* C28: the weight prescribed for an exercise is
\* max(5, 5 * round(min(0.8 * avg * m, 0.9 * maxW) / 5)), avg being the
\* exercise's average weight in the log (0.7 * maxW when that is 0), maxW
\* its largest weight and m the intensity multiplier (0.7 under needs_rest,
\* 0.85 under light_workout, 1.1 when ready and more than 3 days after the
\* last workout, else 1.0); so it is always a positive multiple of 5.
C28_WeightIsRoundedShareOfHistory ==
    PlanReturned =>
        LET db == build_exercise_database(df)
            context == get_recent_context(df, now)
        IN  \A i \in DOMAIN result.exercises :
               LET stats == StatOf(db, result.exercises[i].exercise)
               IN  /\ result.exercises[i].weight \in PrescribedWeights(stats, context)
                   /\ result.exercises[i].weight > 0
                   /\ result.exercises[i].weight % 5 = 0

\* C28 witness: a plan made more than 3 days after the last workout, with
\* an exercise that never had a weight, prescribed 5, and one prescribed
\* a share of its average weight
C28_Witness ==
    /\ PlanReturned
    /\ get_recent_context(df, now).recovery_status = "ready"
    /\ get_recent_context(df, now).days_since_last > 3
    /\ LET db == build_exercise_database(df)
       IN  /\ \E i \in DOMAIN result.exercises :
                 /\ StatOf(db, result.exercises[i].exercise).max_weight.num = 0
                 /\ result.exercises[i].weight = 5
           /\ \E i \in DOMAIN result.exercises :
                 /\ StatOf(db, result.exercises[i].exercise).avg_weight.num > 0
                 /\ result.exercises[i].weight > 5

(***************************************************************************)
(* The recommendations page (pages/ml_recommendations.py): one run of      *)
(* show_ml_recommendations is one step.  The session keeps the recommender *)
(* and recommendation_history; an entry of the history is the type and the *)
(* list of the result (the timestamp and the reasoning text are left out). *)
(***************************************************************************)
HistoryLimit == 10

\* an entry logged yesterday without an exercise name
NamelessRow ==
    [Exercise |-> NoName, Date |-> ServiceNow - 1, RPE |-> 16,
     MuscleGroup |-> "Legs", Total_Volume |-> 0]

\* the log the page is opened on: ten exercises, logged more than 7 days
\* ago, the last five entries on five later days
PageLog ==
    LET log == BaseLog(10, "one")
    IN  [i \in DOMAIN log |->
            [log[i] EXCEPT !.Date = IF i > Len(log) - 5
                                    THEN OldDay + (i - (Len(log) - 5))
                                    ELSE OldDay]]

\* the settings of the sidebar that are tried
PageTypes == {"context_aware", "collaborative"}

\* recommend_complete_workout raises on this log (KeyError on the empty
\* frame, ZeroDivisionError on a missing exercise name: see
\* build_exercise_database)
PlannerRaises(frame) == frame = <<>> \/ InList(NoName, ExerciseColumn(frame))

\* recommendation_history[-10:]
LastEntries(history) ==
    IF Len(history) > HistoryLimit
    THEN SubSeq(history, Len(history) - HistoryLimit + 1, Len(history))
    ELSE history

HistoryEntry(recommendation_type, recommendations) ==
    [type |-> recommendation_type,
     recommendations |-> recommendations.recommendations]

InitPage ==
    /\ pc = "idle"
    /\ csv_rows = PageLog
    /\ df = csv_rows
    /\ now = ServiceNow
    /\ recommender = FreshRecommender
    /\ request = <<>>
    /\ result = <<>>
    /\ recent_context = <<>>
    /\ context_features = <<>>
    /\ csv_file = <<>>
    /\ st_error = <<>>
    /\ recommendation_history = <<>>
    /\ collaborative_model = <<>>
    /\ NoCell

\* show_ml_recommendations(): the page returns early on an empty log and
\* when training fails; the complete-workout tab calls the planner when its
\* button was pressed, and an exception raised there ends the run before
\* the history section
ShowMlRecommendations ==
    /\ pc = "idle"
    /\ \E recommendation_type \in PageTypes, generate \in BOOLEAN :
          LET n_recommendations == 3
              trainings ==
                  IF recommender.is_trained
                  THEN {[self |-> recommender, returned |-> TRUE]}
                  ELSE MLWorkoutRecommender_train(recommender, df, now)
              raised == generate /\ PlannerRaises(df)
          IN  /\ request' = [op |-> "show_ml_recommendations",
                             recommendation_type |-> recommendation_type,
                             n_recommendations |-> n_recommendations,
                             generate |-> generate]
              /\ IF df = <<>>
                 THEN /\ result' = [st_error |-> "No workout data found"]
                      /\ UNCHANGED <<recommender, recommendation_history>>
                 ELSE \E trained \in trainings :
                         /\ recommender' = trained.self
                         /\ IF ~trained.returned
                            THEN /\ result' = [st_error |-> "Failed to train ML models"]
                                 /\ UNCHANGED recommendation_history
                            ELSE \E o \in MLWorkoutRecommender_get_recommendations(
                                              trained.self, df, recommendation_type,
                                              n_recommendations, now) :
                                    /\ result' = o.returned
                                    /\ recommendation_history' =
                                          IF raised \/ "error" \in DOMAIN o.returned
                                          THEN recommendation_history
                                          ELSE LastEntries(Append(recommendation_history,
                                                   HistoryEntry(recommendation_type,
                                                                o.returned)))
    /\ pc' = "returned"
    /\ UNCHANGED <<frameVars, parseVars, contextVars, csv_file, st_error,
                   collaborative_model>>

\* the user logs an entry without an exercise name (workouts.csv grows and
\* the next run loads it)
AppendNameless ==
    /\ pc = "idle"
    /\ df = csv_rows
    /\ df' = Append(df, NamelessRow)
    /\ UNCHANGED <<pc, csv_rows, parseVars, contextVars, serviceVars>>

NextPage == AppendNameless \/ ShowMlRecommendations \/ Rendered

SpecPage == InitPage /\ [][NextPage]_vars

\* the history after a run of the page that starts with history and shows
\* the result shown
HistoryAfter(history, recommendation_type, shown) ==
    IF "recommendations" \in DOMAIN shown
    THEN LET extended == Append(history, HistoryEntry(recommendation_type, shown))
         IN  IF Len(extended) > 10
             THEN SubSeq(extended, Len(extended) - 9, Len(extended))
             ELSE extended
    ELSE history

\* C29: whatever runs of the page a session has seen, recommendation_history
\* holds at most 10 entries; they are the most recent recommendation results
\* that were no error, oldest first (the oldest is dropped first); a run
\* whose recommendation result is an error adds no entry.
C29_HistoryKeepsLastTenResults ==
    /\ [](Len(recommendation_history) <= 10)
    /\ [][(pc = "idle" /\ pc' = "returned") =>
             recommendation_history' =
                 HistoryAfter(recommendation_history,
                              request'.recommendation_type, result')]_vars

(***************************************************************************)
(* Repeated training: MLWorkoutRecommender.train called again on a         *)
(* recommender, whatever is_trained says, on the log loaded at that time.  *)
(***************************************************************************)
\* the logs that are loaded: the ten-exercise log, the same with an entry
\* without an exercise name, a log of four exercises, and no log
TrainLogs ==
    {PageLog, Append(PageLog, NamelessRow), BaseLog(4, "two"), <<>>}

InitTrain ==
    /\ pc = "idle"
    /\ csv_rows \in TrainLogs
    /\ df = csv_rows
    /\ now = ServiceNow
    /\ recommender = FreshRecommender
    /\ request = <<>>
    /\ result = <<>>
    /\ recent_context = <<>>
    /\ context_features = <<>>
    /\ csv_file = <<>>
    /\ st_error = <<>>
    /\ recommendation_history = <<>>
    /\ collaborative_model = <<>>
    /\ NoCell

\* workouts.csv is replaced and loaded
LoadLog ==
    /\ pc = "idle"
    /\ \E frame \in TrainLogs \ {df} : df' = frame
    /\ UNCHANGED <<pc, csv_rows, parseVars, contextVars, serviceVars>>

\* recommender.train(df)
CallTrain ==
    /\ pc = "idle"
    /\ \E o \in MLWorkoutRecommender_train(recommender, df, now) :
          /\ recommender' = o.self
          /\ result' = o.returned
    /\ request' = [op |-> "train"]
    /\ pc' = "returned"
    /\ UNCHANGED <<frameVars, parseVars, contextVars, loadVars, collaborative_model>>

NextTrain ==
    \/ LoadLog
    \/ CallTrain
    \/ GetRecommendations
    \/ Rendered

SpecTrain == InitTrain /\ [][NextTrain]_vars

\* the recommenders a training pass on frame that succeeds may give
TrainedOn(frame) ==
    {o.self : o \in {t \in MLWorkoutRecommender_train(FreshRecommender, frame, now) :
                        t.returned}}

\* the artifacts of self were all built in one training pass
BuiltInOnePass(self) ==
    /\ self.is_trained
    /\ self \in TrainedOn(self.feature_engineer.df)

\* C30: after any train calls on one recommender, get_recommendations returns
\* the error 'Models not trained yet' as long as no train call has succeeded,
\* and otherwise answers from artifacts (feature engineer, collaborative,
\* content and sequence model) that were all built in one training pass, the
\* most recent that succeeded: after a train call that succeeds they are those
\* of the log it was given, and a train call that fails leaves a trained
\* recommender as it was.
C30_ArtifactsAreOfOneTrainingPass ==
    /\ [](~recommender.is_trained =>
             \A recommendation_type \in RecommendationTypes :
                \A o \in MLWorkoutRecommender_get_recommendations(
                             recommender, df, recommendation_type, 1, now) :
                   o.returned = ErrorResult("Models not trained yet"))
    /\ [](recommender.is_trained => BuiltInOnePass(recommender))
    /\ [][(pc = "idle" /\ pc' = "returned" /\ request'.op = "train") =>
             IF result' = TRUE
             THEN recommender' \in TrainedOn(df)
             ELSE recommender.is_trained => recommender' = recommender]_vars

\* a request was answered by a recommender whose feature engineer and hybrid
\* model come from different logs
C30_MixedAnswer ==
    /\ pc = "returned"
    /\ request.op = "get_recommendations"
    /\ request.recommendation_type = "hybrid"
    /\ "recommendations" \in DOMAIN result
    /\ recommender.is_trained
    /\ ~BuiltInOnePass(recommender)
====
